---- MODULE Spec2Model ----
(***************************************************************************)
(* A model of the sales-data ingestion tools of teich/aac-data:            *)
(*   - QBSalesParser (qb_sales_parser.py): the per-record processing of a  *)
(*     QuickBooks sales export, in live and in dry-run mode, against a     *)
(*     PostgreSQL store reached through one psycopg2 connection;           *)
(*   - CombinedOrderImporter (import-s4s.py): the batch import of orders   *)
(*     and line items keyed by invoice number.                             *)
(*                                                                         *)
(* The store is modelled as committed tables (store) plus the rows the     *)
(* open transaction of the parser's connection has written and not         *)
(* committed (pending).  psycopg2 opens a transaction with the first       *)
(* statement and keeps it until commit() or rollback(); a failed statement *)
(* aborts the transaction, after which every statement raises              *)
(* InFailedSqlTransaction until rollback().                                *)
(***************************************************************************)
EXTENDS Integers, Sequences, FiniteSets, TLC

\* ----------------------------------------------------------------- bounds
MaxRecords == 2
MaxRuns == 2
\* Rows in a file given to CombinedOrderImporter.
MaxRows == 3
\* Orders per batch of CombinedOrderImporter.process: 50 in the source,
\* scaled to the files of MaxRows rows.
BatchSize == 2
\* Rows in a file whose reading is followed row by row.
MaxLines == 2
\* Live runs that share one store.
MaxRaceRuns == 2
\* Resolver calls of one such run.
MaxCalls == 2
\* Pairs in the company_data of one call of ensure_companies.
MaxPairs == 2
\* Calls of ensure_companies on one store.
MaxEnsureCalls == 2

\* ------------------------------------------------------------ text values
\* Texts that the code inspects character by character are sequences of
\* one-character strings.
Digits == {"0", "1", "2", "3", "4", "5", "6", "7", "8", "9"}
UpperCase == <<"A", "B", "C", "D", "E", "F", "G", "H", "I", "J", "K", "L", "M",
               "N", "O", "P", "Q", "R", "S", "T", "U", "V", "W", "X", "Y", "Z">>
LowerCase == <<"a", "b", "c", "d", "e", "f", "g", "h", "i", "j", "k", "l", "m",
               "n", "o", "p", "q", "r", "s", "t", "u", "v", "w", "x", "y", "z">>
Letters == {UpperCase[i] : i \in 1..26} \cup {LowerCase[i] : i \in 1..26}

IsDigit(c) == c \in Digits
\* \w of a Python str pattern, for the ASCII characters of the model.
IsWordChar(c) == c \in Letters \cup Digits \cup {"_"}
IsSpace(c) == c \in {" ", "\t"}

LowerChar(c) ==
    IF \E i \in 1..26 : UpperCase[i] = c
    THEN LowerCase[CHOOSE i \in 1..26 : UpperCase[i] = c]
    ELSE c

\* str.lower()
Lower(s) == [i \in 1..Len(s) |-> LowerChar(s[i])]

AllDigits(s, from, to) == \A i \in from..to : IsDigit(s[i])

None == 0

\* ------------------------------------------------------- QBSalesRecord
\* channel: re.match anchors at the start only; the amazon pattern alone
\* ends with $.
IsAmazonNumber(s) ==
    /\ Len(s) = 11
    /\ AllDigits(s, 1, 3)
    /\ s[4] = "-"
    /\ AllDigits(s, 5, 11)

IsOnlineStoreNumber(s) ==
    /\ Len(s) >= 7
    /\ s[1] = "3" /\ s[2] = "D" /\ s[3] = "-"
    /\ AllDigits(s, 4, 7)

IsInvoiceNumber(s) ==
    /\ Len(s) >= 5
    /\ s[1] = "A"
    /\ AllDigits(s, 2, 5)

Channel(order_number) ==
    IF order_number = <<>> THEN "ValueError"
    ELSE IF IsAmazonNumber(order_number) THEN "amazon"
    ELSE IF IsOnlineStoreNumber(order_number) THEN "online_store"
    ELSE IF IsInvoiceNumber(order_number) THEN "invoice"
    ELSE "ValueError"

SHIPPING == <<"s", "h", "i", "p", "p", "i", "n", "g">>

IsSkuChar(c) == IsWordChar(c) \/ c \in {"-", "."}

\* The length of the longest prefix of item made of SKU characters.
SkuTokenLen(item) ==
    IF \E n \in 1..Len(item) : ~IsSkuChar(item[n])
    THEN (CHOOSE n \in 1..Len(item) :
              ~IsSkuChar(item[n]) /\ \A i \in 1..(n - 1) : IsSkuChar(item[i])) - 1
    ELSE Len(item)

\* re.match(r'([\w\-\.]+)\s*\(', item): the token, optional blanks, "(".
SkuMatches(item) ==
    LET n == SkuTokenLen(item) IN
        /\ n >= 1
        /\ \E k \in (n + 1)..Len(item) :
              /\ item[k] = "("
              /\ \A i \in (n + 1)..(k - 1) : IsSpace(item[i])

\* sku with the reserved text compared as written.
SkuCaseSensitive(item) ==
    IF item = SHIPPING THEN SHIPPING
    ELSE IF SkuMatches(item) THEN SubSeq(item, 1, SkuTokenLen(item))
    ELSE <<"ValueError">>

Sku(item) ==
    IF Lower(item) = SHIPPING THEN SHIPPING
    ELSE IF SkuMatches(item) THEN SubSeq(item, 1, SkuTokenLen(item))
    ELSE <<"ValueError">>

\* datetime.strptime(record.date, '%m/%d/%Y'): the date text is modelled by
\* its separator and its three numeric parts.
DateParses(date) ==
    /\ date.sep = "/"
    /\ date.parts[1] \in 1..12
    /\ date.parts[2] \in 1..31
    /\ date.parts[3] \in 1..9999

\* An e-mail address is the sequence of its parts around "@"; the local part
\* is a pair <<name, number>> so that the synthetic FBA addresses, which embed
\* a counter, have the shape of the others.  The email field of a record is
\* the sequence of its ";"-separated addresses, blanks stripped.
NoEmail == <<>>
Addr(user, domain) == << <<user, 0>>, domain >>
\* An address of the email field with blanks between it and the ";".
Padded(addr) == <<addr[1], addr[2], " ">>
\* e.strip() of one of the ";"-separated parts.
StripAddr(part) == <<part[1], part[2]>>

NoDomain == ""

\* get_domain_from_email: the part after the first "@", None without "@".
GetDomainFromEmail(email) ==
    IF Len(email) >= 2 THEN email[2] ELSE NoDomain

\* ------------------------------------------------------------- the store
Tables == {"companies", "people", "products", "orders", "line_items"}
EmptyTables == [t \in Tables |-> {}]

\* A world is everything a handler of the parser reads or writes:
\*   store    the committed tables, seen by every connection
\*   pending  the rows written by the open transaction of self.conn
\*   aborted  self.conn's transaction is in the failed state
\*   seq      the next value of each table's id sequence (sequences are not
\*            transactional: a value drawn by a failed insert is used up)
\*   dry_run, fba_user_counter, simulated_ids, operations_log: the parser's
\*            fields
\*   decisions, calls: history of the resolution decisions taken and of the
\*            calls of find_or_create_company
\* What self.conn reads: committed rows and its own uncommitted ones.
View(w) == [t \in Tables |-> w.store[t] \cup w.pending[t]]

Return(w, v) == [w |-> w, raised |-> "none", val |-> v]
Raise(w, reason) == [w |-> w, raised |-> reason, val |-> None]

\* As Abort, but only the failing statement is undone: what the connection
\* wrote before it stays.
AbortStatementOnly(w, table) ==
    [w EXCEPT !.aborted = TRUE, !.seq[table] = w.seq[table] + 1]

\* A statement that violates a constraint: the transaction is aborted, what
\* it wrote can no longer become visible, the sequence value is spent.
Abort(w, table) ==
    [w EXCEPT !.aborted = TRUE, !.pending = EmptyTables,
              !.seq[table] = w.seq[table] + 1]

\* INSERT ... RETURNING id of one row on self.conn.
InsertRow(w, table, row) ==
    [w EXCEPT !.pending[table] = w.pending[table] \cup {row},
              !.seq[table] = w.seq[table] + 1]

Log(w, entry) == [w EXCEPT !.operations_log = Append(w.operations_log, entry)]
Decide(w, op, what) == [w EXCEPT !.decisions = Append(w.decisions, <<op, what>>)]
\* One call of find_or_create_company: how it ended, what it returned and how
\* many companies with the domain the connection saw when it ended.
\* The e-mail handle_person resolves a record with.
Chose(w, email) == [w EXCEPT !.chosen = Append(w.chosen, email)]
Called(w, domain, outcome, id) ==
    [w EXCEPT !.calls = Append(w.calls,
                  [domain |-> domain, outcome |-> outcome, id |-> id,
                   count |-> Cardinality({c \in View(w).companies :
                                             c.domain = domain})])]
\* One counter for all kinds.
NextSimShared(w, kind) ==
    [w EXCEPT !.simulated_ids = [k \in DOMAIN w.simulated_ids |->
                                    w.simulated_ids[k] + 1]]

NextSim(w, kind) == [w EXCEPT !.simulated_ids[kind] = w.simulated_ids[kind] + 1]

\* The unique keys of the schema: companies.domain, people.email,
\* products.sku, orders.order_number.
DomainTaken(tables, domain) == \E c \in tables.companies : c.domain = domain
EmailTaken(tables, email) == \E p \in tables.people : p.email = email
SkuTaken(tables, sku) == \E p \in tables.products : p.sku = sku
OrderNumberTaken(tables, order_number) ==
    \E o \in tables.orders : o.order_number = order_number

\* cur.execute of an INSERT ... RETURNING id on self.conn, conflict telling
\* whether the row violates a unique key.
ExecInsert(w, table, row, conflict) ==
    IF w.aborted THEN Raise(w, "InFailedSqlTransaction")
    ELSE IF conflict THEN Raise(Abort(w, table), "UniqueViolation")
    ELSE Return(InsertRow(w, table, row), row.id)

\* ------------------------------------------------ find_or_create_company
\* The set of possible results (a fetchone() without ORDER BY may return any
\* matching row).
FindOrCreateCompany(w, email) ==
    IF email = NoEmail THEN {Return(w, None)}
    ELSE LET domain == GetDomainFromEmail(email) IN
    IF domain = NoDomain THEN {Return(w, None)}
    ELSE IF w.aborted
    THEN {Raise(Called(w, domain, "raised", None), "InFailedSqlTransaction")}
    ELSE LET found == {c.id : c \in {c \in View(w).companies : c.domain = domain}} IN
    IF w.dry_run
    THEN IF found # {}
         THEN {Return(Log(w, [operation |-> "company", domain |-> domain,
                              status |-> "found", existing_id |-> id,
                              simulated_id |-> None]), id) : id \in found}
         ELSE {Return(NextSim(Log(w, [operation |-> "company", domain |-> domain,
                                      status |-> "would_create", existing_id |-> None,
                                      simulated_id |-> w.simulated_ids.company]),
                              "company"),
                      w.simulated_ids.company)}
    ELSE IF found # {}
         THEN {Return(Called(Decide(w, "company", "found"), domain, "found", id), id)
                   : id \in found}
         ELSE LET id == w.seq.companies
                  r == ExecInsert(Decide(w, "company", "create"), "companies",
                                  [id |-> id, name |-> domain, domain |-> domain],
                                  DomainTaken(View(w), domain))
              IN  {[r EXCEPT !.w = Called(r.w, domain,
                                          IF r.raised = "none" THEN "created" ELSE "raised",
                                          r.val)]}

\* ------------------------------------------------------------ find_person
\* The queries find_person makes before it returns with the given matches:
\* a field that is empty is not queried, a query that matches ends the search.
QueriesMade(email, phone, name, byEmail, byPhone, byName) ==
    LET qe == IF email # NoEmail THEN <<"email">> ELSE <<>>
        qp == qe \o (IF phone # "" THEN <<"phone">> ELSE <<>>)
        qn == qp \o (IF name # "" THEN <<"name">> ELSE <<>>)
    IN  IF byEmail # {} THEN qe ELSE IF byPhone # {} THEN qp ELSE qn

\* As find_person with the phone tried before the e-mail.
FindPersonPhoneFirst(w, email, phone, name) ==
    LET people == View(w).people
        byEmail == IF email # NoEmail THEN {p \in people : p.email = email} ELSE {}
        byPhone == IF phone # "" THEN {p \in people : p.phone = phone} ELSE {}
        byName == IF name # "" THEN {p \in people : p.name = name} ELSE {}
    IN  IF byPhone # {}
        THEN {[raised |-> "none", val |-> p.id, basis |-> "phone",
               queries |-> <<"phone">>] : p \in byPhone}
        ELSE IF byEmail # {}
        THEN {[raised |-> "none", val |-> p.id, basis |-> "email",
               queries |-> <<"phone", "email">>] : p \in byEmail}
        ELSE IF byName # {}
        THEN {[raised |-> "none", val |-> p.id, basis |-> "name",
               queries |-> <<"phone", "email", "name">>] : p \in byName}
        ELSE {[raised |-> "none", val |-> None, basis |-> "none",
               queries |-> <<"phone", "email", "name">>]}

\* The set of possible results [raised, val, basis, queries]; val = None: no
\* match; queries: the columns queried, in order.
FindPerson(w, email, phone, name) ==
    LET people == View(w).people
        byEmail == IF email # NoEmail THEN {p \in people : p.email = email} ELSE {}
        byPhone == IF phone # "" THEN {p \in people : p.phone = phone} ELSE {}
        byName == IF name # "" THEN {p \in people : p.name = name} ELSE {}
        queries == QueriesMade(email, phone, name, byEmail, byPhone, byName)
    IN  IF w.aborted /\ (email # NoEmail \/ phone # "" \/ name # "")
        THEN {[raised |-> "InFailedSqlTransaction", val |-> None, basis |-> "none",
               queries |-> <<Head(QueriesMade(email, phone, name, {}, {}, {}))>>]}
        ELSE IF byEmail # {}
        THEN {[raised |-> "none", val |-> p.id, basis |-> "email",
               queries |-> queries] : p \in byEmail}
        ELSE IF byPhone # {}
        THEN {[raised |-> "none", val |-> p.id, basis |-> "phone",
               queries |-> queries] : p \in byPhone}
        ELSE IF byName # {}
        THEN {[raised |-> "none", val |-> p.id, basis |-> "name",
               queries |-> queries] : p \in byName}
        ELSE {[raised |-> "none", val |-> None, basis |-> "none",
               queries |-> queries]}

\* ---------------------------------------------------------- create_person
\* f'found_by_{found[1]}'
FoundBy(basis) ==
    CASE basis = "email" -> "found_by_email"
      [] basis = "phone" -> "found_by_phone"
      [] basis = "name" -> "found_by_name"

\* (the address of a valid record parses: validate_record has parsed it)
CreatePersonFound(w, record, email, company_id, found) ==
    IF found.raised # "none" THEN Raise(w, found.raised)
    ELSE IF w.dry_run
    THEN IF found.val # None
         THEN Return(Log(w, [operation |-> "person", name |-> record.name,
                             email |-> email, company_id |-> company_id,
                             status |-> FoundBy(found.basis),
                             existing_id |-> found.val, simulated_id |-> None]),
                     found.val)
         ELSE Return(NextSim(Log(w, [operation |-> "person", name |-> record.name,
                                     email |-> email, company_id |-> company_id,
                                     status |-> "would_create",
                                     existing_id |-> None,
                                     simulated_id |-> w.simulated_ids.person]),
                             "person"),
                     w.simulated_ids.person)
    ELSE \* live: the INSERT is executed whatever find_person returned
         ExecInsert(Decide(w, "person", "create"), "people",
                    [id |-> w.seq.people, name |-> record.name, email |-> email,
                     phone |-> record.phone, company_id |-> company_id],
                    EmailTaken(View(w), email))

CreatePerson(w, record, email, company_id) ==
    {CreatePersonFound(w, record, email, company_id, found)
        : found \in FindPerson(w, email, record.phone, record.name)}

\* After find_or_create_company returned or raised.
ThenCreatePerson(c, record, email) ==
    IF c.raised # "none" THEN {c} ELSE CreatePerson(c.w, record, email, c.val)

\* As SyntheticEmail without the counter in the address.
SyntheticEmailUnnumbered(n) == << <<"FBA-user", 1>>, "FBA-amazon.com" >>

\* f'FBA-user{self.fba_user_counter}@FBA-amazon.com'
SyntheticEmail(n) == << <<"FBA-user", n>>, "FBA-amazon.com" >>

\* ---------------------------------------------------------- handle_person
\* As FirstEmail with the last of the addresses.
LastEmail(record) == StripAddr(record.email[Len(record.email)])

\* emails = [e.strip() for e in record.email.split(';')]; emails[0]
FirstEmail(record) == StripAddr(record.email[1])

HandlePerson(w, record) ==
    IF Channel(record.order_number) = "amazon" /\ record.email = <<>>
    THEN LET synthetic_email == SyntheticEmail(w.fba_user_counter + 1)
             w1 == Chose([w EXCEPT !.fba_user_counter = w.fba_user_counter + 1],
                         synthetic_email)
         IN  UNION {ThenCreatePerson(c, record, synthetic_email)
                       : c \in FindOrCreateCompany(w1, synthetic_email)}
    ELSE IF Len(record.email) > 1
    THEN LET first == FirstEmail(record) IN
         UNION {ThenCreatePerson(c, record, first)
                   : c \in FindOrCreateCompany(Chose(w, first), first)}
    ELSE LET email == IF record.email = <<>> THEN NoEmail ELSE record.email[1]
             w1 == Chose(w, email)
         IN
         UNION {IF found.raised # "none" THEN {Raise(w1, found.raised)}
                ELSE IF found.val # None THEN {Return(w1, found.val)}
                ELSE UNION {ThenCreatePerson(c, record, email)
                               : c \in FindOrCreateCompany(w1, email)}
                   : found \in FindPerson(w1, email, record.phone, record.name)}

\* ------------------------------------------------ ensure_shipping_product
EnsureShippingProduct(w) ==
    IF w.aborted THEN {Raise(w, "InFailedSqlTransaction")}
    ELSE LET found == {p.id : p \in {p \in View(w).products : p.sku = SHIPPING}} IN
    IF w.dry_run
    THEN IF found # {}
         THEN {Return(Log(w, [operation |-> "product", sku |-> SHIPPING,
                              status |-> "found", existing_id |-> id,
                              simulated_id |-> None]), id) : id \in found}
         ELSE {Return(NextSim(Log(w, [operation |-> "product", sku |-> SHIPPING,
                                      status |-> "would_create", existing_id |-> None,
                                      simulated_id |-> w.simulated_ids.product]),
                              "product"),
                      w.simulated_ids.product)}
    ELSE IF found # {}
    THEN {Return(Decide(w, "product", "found"), id) : id \in found}
    ELSE \* a second connection with autocommit: it reads the committed rows
         \* and its insert is committed at once
         LET committed == {p.id : p \in {p \in w.store.products : p.sku = SHIPPING}} IN
         IF committed # {}
         THEN {Return(Decide(w, "product", "found"), id) : id \in committed}
         ELSE LET id == w.seq.products
                  row == [id |-> id, name |-> <<"Shipping">>,
                          description |-> <<"Shipping charges">>, sku |-> SHIPPING]
              IN  {Return([Decide(w, "product", "create")
                              EXCEPT !.store.products = w.store.products \cup {row},
                                     !.seq.products = id + 1], id)}

\* ------------------------------------------------ find_or_create_product
FindOrCreateProduct(w, record) ==
    LET sku == Sku(record.item) IN
    IF sku = SHIPPING THEN EnsureShippingProduct(w)
    ELSE IF w.aborted THEN {Raise(w, "InFailedSqlTransaction")}
    ELSE LET found == {p.id : p \in {p \in View(w).products : p.sku = sku}} IN
    IF w.dry_run
    THEN IF found # {}
         THEN {Return(Log(w, [operation |-> "product", sku |-> sku,
                              status |-> "found", existing_id |-> id,
                              simulated_id |-> None]), id) : id \in found}
         ELSE {Return(NextSim(Log(w, [operation |-> "product", sku |-> sku,
                                      status |-> "would_create", existing_id |-> None,
                                      simulated_id |-> w.simulated_ids.product]),
                              "product"),
                      w.simulated_ids.product)}
    ELSE IF found # {}
    THEN {Return(Decide(w, "product", "found"), id) : id \in found}
    ELSE {ExecInsert(Decide(w, "product", "create"), "products",
                     [id |-> w.seq.products, name |-> record.item,
                      description |-> IF record.item_description # <<>>
                                      THEN record.item_description ELSE record.item,
                      sku |-> sku],
                     SkuTaken(View(w), sku))}

\* ----------------------------------------------------------- create_order
\* The line-item insert that follows a successful order insert; rejected
\* tells whether the store refuses the row (a value its column cannot hold).
InsertLineItem(o, record, product_id, rejected) ==
    IF o.raised # "none" THEN o
    ELSE IF rejected THEN Raise(Abort(o.w, "line_items"), "DataError")
    ELSE LET id == o.w.seq.line_items IN
         Return(InsertRow(o.w, "line_items",
                          [id |-> id, order_id |-> o.val, product_id |-> product_id,
                           unit_price |-> record.price, quantity |-> record.quantity,
                           amount |-> record.amount]),
                <<o.val, id>>)

\* create_order past the dry-run branch.
CreateOrderLive(w, record, person_id, product_id, rejected) ==
    IF ~DateParses(record.date) THEN Raise(w, "ValueError")
    ELSE InsertLineItem(
             ExecInsert(w, "orders",
                        [id |-> w.seq.orders, person_id |-> person_id,
                         amount |-> record.amount,
                         order_number |-> record.order_number,
                         channel |-> Channel(record.order_number)],
                        OrderNumberTaken(View(w), record.order_number)),
             record, product_id, rejected)

\* As create_order without its dry-run branch.
CreateOrderIgnoringDryRun(w, record, person_id, product_id, rejected) ==
    CreateOrderLive(w, record, person_id, product_id, rejected)

CreateOrder(w, record, person_id, product_id, rejected) ==
    IF w.dry_run
    THEN Return(NextSim(NextSim(Log(w, [operation |-> "create_order",
                                        order_number |-> record.order_number,
                                        person_id |-> person_id,
                                        product_id |-> product_id,
                                        amount |-> record.amount,
                                        simulated_order_id |-> w.simulated_ids.order,
                                        simulated_line_item_id |-> w.simulated_ids.line_item]),
                                "order"), "line_item"),
                <<w.simulated_ids.order, w.simulated_ids.line_item>>)
    ELSE CreateOrderLive(w, record, person_id, product_id, rejected)

\* ------------------------------------------------------- the input space
GoodDate == [sep |-> "/", parts |-> <<11, 25, 2016>>]
IsoDate == [sep |-> "-", parts |-> <<2016, 11, 25>>]

A1001 == <<"A", "1", "0", "0", "1">>
A1002 == <<"A", "1", "0", "0", "2">>
S1001 == <<"3", "D", "-", "1", "0", "0", "1">>
AMZ1 == <<"1", "1", "1", "-", "1", "1", "1", "1", "1", "1", "1">>
Widget == <<"W", "-", "1", " ", "(", "x", ")">>
ShippingItem == <<"S", "h", "i", "p", "p", "i", "n", "g">>

Record(order_number, email, phone, name, item, date) ==
    [order_number |-> order_number, email |-> email, phone |-> phone,
     name |-> name, item |-> item, item_description |-> <<>>, date |-> date,
     quantity |-> 1, price |-> 42, amount |-> 42]

\* The valid records a file of the model is made of: a returning customer,
\* a shipping row that repeats the order number of another row, a row with
\* two addresses, an Amazon row without address, a row whose date is not
\* month/day/year, a row of the returning customer with two addresses, a
\* customer whose address writes the returning customer's domain in capitals.
Records ==
    {Record(A1001, <<Addr("a", "x.com")>>, "p1", "Ann", Widget, GoodDate),
     Record(A1001, <<Addr("a", "x.com"), Addr("e", "w.com")>>, "p1", "Ann", Widget,
            GoodDate),
     Record(A1001, <<Addr("b", "y.com")>>, "p2", "Bob", ShippingItem, GoodDate),
     Record(A1002, <<Padded(Addr("c", "y.com")), Addr("d", "z.com")>>, "p3", "Cy",
            Widget, GoodDate),
     Record(AMZ1, <<>>, "p1", "Ann", Widget, GoodDate),
     Record(A1002, <<Addr("f", "X.COM")>>, "p5", "Fay", Widget, GoodDate),
     Record(S1001, <<Addr("b", "y.com")>>, "p2", "Bob", Widget, IsoDate)}

\* The rules of validate_record on the fields the model carries.
ValidateRecord(record) ==
    /\ ~(record.email = <<>> /\ Channel(record.order_number) # "amazon")
    /\ Channel(record.order_number) # "ValueError"
    /\ Sku(record.item) # <<"ValueError">>

Files == UNION {[1..n -> {r \in Records : ValidateRecord(r)}] : n \in 0..MaxRecords}

\* The stores a run may start from: empty, or holding a customer with her
\* company, a product and an order with its line item; with or without the
\* shipping product.
PriorTables ==
    [companies |-> {[id |-> 1, name |-> "x.com", domain |-> "x.com"]},
     people |-> {[id |-> 1, name |-> "Ann", email |-> Addr("a", "x.com"),
                  phone |-> "p1", company_id |-> 1]},
     products |-> {[id |-> 1, name |-> Widget, description |-> Widget,
                    sku |-> Sku(Widget)]},
     orders |-> {[id |-> 1, person_id |-> 1, amount |-> 42,
                  order_number |-> A1001, channel |-> "invoice"]},
     line_items |-> {[id |-> 1, order_id |-> 1, product_id |-> 1,
                      unit_price |-> 42, quantity |-> 1, amount |-> 42]}]

WithShipping(tables) ==
    [tables EXCEPT !.products = tables.products \cup
        {[id |-> Cardinality(tables.products) + 1, name |-> <<"Shipping">>,
          description |-> <<"Shipping charges">>, sku |-> SHIPPING]}]

InitialStores ==
    {EmptyTables, PriorTables, WithShipping(EmptyTables), WithShipping(PriorTables)}

\* ================================================== the reading of a file
\* str.strip() of a text given as a sequence of characters.
RECURSIVE StripLeft(_)
StripLeft(s) == IF s # <<>> /\ IsSpace(Head(s)) THEN StripLeft(Tail(s)) ELSE s

RECURSIVE StripRight(_)
StripRight(s) ==
    IF s # <<>> /\ IsSpace(s[Len(s)]) THEN StripRight(SubSeq(s, 1, Len(s) - 1)) ELSE s

Strip(s) == StripRight(StripLeft(s))

\* The text of a numeric column.  A decimal text is given by its sign and its
\* value in tenths; the other forms are the empty text, blanks, the texts
\* float() reads as infinity and as not-a-number, and a text float() rejects.
\* Two further forms stand for what csv.DictReader gives when there is no
\* text: the value None of a line shorter than the header ("novalue") and a
\* header without the column ("nocolumn").
Cell(form, neg, tenths) == [form |-> form, neg |-> neg, tenths |-> tenths]
EmptyCell == Cell("empty", FALSE, 0)
BlankCell == Cell("blank", FALSE, 0)
Decimal(neg, tenths) == Cell("decimal", neg, tenths)
InfCell == Cell("inf", FALSE, 0)
NanCell == Cell("nan", FALSE, 0)
JunkCell == Cell("junk", FALSE, 0)
NoValue == Cell("novalue", FALSE, 0)
NoColumn == Cell("nocolumn", FALSE, 0)

\* row[column].strip() of a numeric column: the exception it raises or "none".
CellAccess(cell) ==
    IF cell.form = "nocolumn" THEN "KeyError"
    ELSE IF cell.form = "novalue" THEN "AttributeError"
    ELSE "none"

\* The stripped text is empty.
IsEmptyText(cell) == cell.form \in {"empty", "blank"}

\* float(text): a value [kind, neg, tenths], or the exception.
Float(cell) ==
    IF cell.form = "decimal"
    THEN [raised |-> "none", kind |-> "finite", neg |-> cell.neg, tenths |-> cell.tenths]
    ELSE IF cell.form = "inf"
    THEN [raised |-> "none", kind |-> "inf", neg |-> cell.neg, tenths |-> 0]
    ELSE IF cell.form = "nan"
    THEN [raised |-> "none", kind |-> "nan", neg |-> FALSE, tenths |-> 0]
    ELSE [raised |-> "ValueError", kind |-> "none", neg |-> FALSE, tenths |-> 0]

Zero == [raised |-> "none", kind |-> "finite", neg |-> FALSE, tenths |-> 0]

\* int(x) of a float: truncation towards zero; infinity and not-a-number
\* have no integer.
IntOfFloat(x) ==
    IF x.raised # "none" THEN [raised |-> x.raised, val |-> 0]
    ELSE IF x.kind = "inf" THEN [raised |-> "OverflowError", val |-> 0]
    ELSE IF x.kind = "nan" THEN [raised |-> "ValueError", val |-> 0]
    ELSE [raised |-> "none",
          val |-> IF x.neg THEN 0 - (x.tenths \div 10) ELSE x.tenths \div 10]

\* text -> float, an empty text giving 0.0
FloatOrZero(cell) == IF IsEmptyText(cell) THEN Zero ELSE Float(cell)

\* int(float(qty)) if qty else 0
QuantityOf(cell) ==
    IF IsEmptyText(cell) THEN [raised |-> "none", val |-> 0] ELSE IntOfFloat(Float(cell))

\* The first of the given exceptions that is one, "none" without any.
RECURSIVE FirstRaised(_)
FirstRaised(rs) ==
    IF rs = <<>> THEN "none"
    ELSE IF Head(rs) # "none" THEN Head(rs)
    ELSE FirstRaised(Tail(rs))

\* The address text, by what AddressParser.parse looks at: whether it holds
\* five digits in a row, the number of its comma-separated parts, the number
\* of words of the last part.
AddressParses(address) ==
    /\ address.zip
    /\ address.parts >= 2
    /\ address.words >= 2

\* parse_row up to its except clause: the exception raised in its body, or
\* the record.  rest tells how the columns other than the three numeric ones
\* are read ("none", "KeyError", "AttributeError").
ParseRowBody(row) ==
    LET quantity == QuantityOf(row.qty)
        price == FloatOrZero(row.price)
        amount == FloatOrZero(row.amount)
        raised == FirstRaised(<<CellAccess(row.qty), CellAccess(row.price),
                                CellAccess(row.amount), quantity.raised,
                                price.raised, amount.raised, row.rest>>)
    IN  [raised |-> raised,
         record |-> IF raised # "none" THEN <<>>
                    ELSE <<[order_number |-> Strip(row.num), item |-> Strip(row.item),
                            email |-> row.email, address_raw |-> row.address,
                            phone |-> row.phone, name |-> row.name,
                            date |-> row.date,
                            item_description |-> row.item_description,
                            quantity |-> quantity.val, price |-> price,
                            amount |-> amount]>>]

\* parse_row: the record; or None with one error, for the exceptions its
\* except clause names; or the exception, for the others.
ParseRow(row) ==
    LET body == ParseRowBody(row) IN
        IF body.raised = "none" THEN [kind |-> "record", reason |-> "none",
                                      record |-> body.record]
        ELSE IF body.raised \in {"ValueError", "KeyError"}
        THEN [kind |-> "error", reason |-> body.raised, record |-> <<>>]
        ELSE [kind |-> "raised", reason |-> body.raised, record |-> <<>>]

\* validate_record: the rule a record fails first, "none" for a valid one.
ValidationFailure(record) ==
    IF record.email = <<>> /\ Channel(record.order_number) = "ValueError"
    THEN "channel"
    ELSE IF record.email = <<>> /\ Channel(record.order_number) # "amazon"
    THEN "email"
    ELSE IF Channel(record.order_number) = "ValueError" THEN "channel"
    ELSE IF Sku(record.item) = <<"ValueError">> THEN "sku"
    ELSE IF ~AddressParses(record.address_raw) THEN "address"
    ELSE "none"

\* The rows of the files that are read: one ordinary row and rows that
\* differ from it in one column (two for the last of them).
GoodAddress == [zip |-> TRUE, parts |-> 3, words |-> 3]

BaseRow ==
    [qty |-> Decimal(FALSE, 30), price |-> Decimal(FALSE, 420),
     amount |-> Decimal(FALSE, 1260), num |-> A1001, item |-> Widget,
     email |-> <<Addr("a", "x.com")>>, address |-> GoodAddress, phone |-> "p1",
     name |-> "Ann", date |-> GoodDate, item_description |-> <<>>, rest |-> "none"]

OrderNumbers ==
    {A1001 \o <<"2">>, A1001 \o <<"x">>, <<"A", "1", "0", "0">>,
     <<"a", "1", "0", "0", "1">>, <<"X">> \o A1001, <<" ">> \o A1001 \o <<" ">>,
     S1001, S1001 \o <<"2">>, <<"3", "D", "-", "1", "0", "0">>,
     AMZ1, AMZ1 \o <<"1">>, <<"1", "1", "-", "1", "1", "1", "1", "1", "1", "1">>,
     <<>>}

ItemTexts ==
    {ShippingItem, <<"S", "H", "I", "P", "P", "I", "N", "G">>, SHIPPING,
     <<"W", "-", "1", "(", "x", ")">>,
     <<"0", "1", "-", "6", "3", "1", "0", ".", "3", "8", "K", " ", " ", "(", "x", ")">>,
     <<"W", "i", "d", "g", "e", "t">>, <<"(", "x", ")">>,
     <<"W", " ", "1", " ", "(", "x", ")">>, ShippingItem \o <<" ", "(", "x", ")">>,
     <<" ">> \o Widget \o <<" ">>, <<"W", "/", "1", " ", "(", "x", ")">>}

QtyCells ==
    {EmptyCell, BlankCell, Decimal(FALSE, 25), Decimal(TRUE, 30), Decimal(TRUE, 5),
     InfCell, NanCell, JunkCell, NoValue, NoColumn}

ReadRows ==
    {BaseRow}
    \cup {[BaseRow EXCEPT !.num = n] : n \in OrderNumbers}
    \cup {[BaseRow EXCEPT !.item = t] : t \in ItemTexts}
    \cup {[BaseRow EXCEPT !.qty = c] : c \in QtyCells}
    \cup {[BaseRow EXCEPT !.price = c] : c \in {EmptyCell, InfCell, JunkCell, NoValue}}
    \cup {[BaseRow EXCEPT !.amount = c] : c \in {NanCell, JunkCell}}
    \cup {[BaseRow EXCEPT !.email = <<>>], [BaseRow EXCEPT !.email = <<>>, !.num = AMZ1],
          [BaseRow EXCEPT !.email = <<>>, !.num = <<"X">> \o A1001],
          [BaseRow EXCEPT !.num = <<"X">> \o A1001, !.item = <<"(", "x", ")">>],
          [BaseRow EXCEPT !.item = <<"(", "x", ")">>,
                          !.address = [zip |-> FALSE, parts |-> 3, words |-> 3]]}
    \cup {[BaseRow EXCEPT !.address = a] :
             a \in {[zip |-> FALSE, parts |-> 3, words |-> 3],
                    [zip |-> TRUE, parts |-> 1, words |-> 3],
                    [zip |-> TRUE, parts |-> 2, words |-> 1]}}
    \cup {[BaseRow EXCEPT !.rest = e] : e \in {"KeyError", "AttributeError"}}
    \cup {[BaseRow EXCEPT !.rest = "AttributeError", !.qty = JunkCell]}

ReadFiles == UNION {[1..n -> ReadRows] : n \in 1..MaxLines}

\* The rows of the files that are read and then processed: two customers, a
\* shipping row, and a row validate_record rejects.
RunRows ==
    {BaseRow,
     [BaseRow EXCEPT !.num = A1002, !.email = <<Addr("b", "y.com")>>,
                     !.phone = "p2", !.name = "Bob"],
     [BaseRow EXCEPT !.item = ShippingItem],
     [BaseRow EXCEPT !.item = <<"(", "x", ")">>]}

RunFiles == UNION {[1..n -> RunRows] : n \in 1..MaxLines}

\* --limit: absent, or a number.
LineLimits == {<<>>} \cup {<<n>> : n \in 0..MaxLines}

\* ================================================= CombinedOrderImporter
\* A cell of the invoicenum column is a whole number or is empty (NaN).  A
\* column with an empty cell is read as floats, so astype(str) writes 1 as
\* "1" in a column without empty cells and as "1.0" in one with, and an
\* empty cell as "nan".
NaN == 0

InvoiceText(n, form) == [n |-> n, form |-> form]

AsTypeStr(cell, float) ==
    IF cell = NaN THEN InvoiceText(0, "nan")
    ELSE InvoiceText(cell, IF float THEN "float" ELSE "int")

\* The preprocessing of process: the invoicenum column becomes text.
Preprocess(file) ==
    LET float == \E i \in 1..Len(file) : file[i].invoicenum = NaN
    IN [i \in 1..Len(file) |-> [file[i] EXCEPT !.invoicenum = AsTypeStr(@, float)]]

GroupKey(row) == <<row.odate, row.oemail, row.orderamount, row.invoicenum>>

\* The order of two invoice texts of one column: digits sort before "nan".
InvoiceLess(a, b) ==
    IF a.form = "nan" THEN FALSE
    ELSE IF b.form = "nan" THEN TRUE
    ELSE a.n < b.n

KeyLess(a, b) ==
    IF a[1] # b[1] THEN a[1] < b[1]
    ELSE IF a[2] # b[2] THEN a[2] < b[2]
    ELSE IF a[3] # b[3] THEN a[3] < b[3]
    ELSE InvoiceLess(a[4], b[4])

RECURSIVE SortKeys(_)
SortKeys(keys) ==
    IF keys = {} THEN <<>>
    ELSE LET first == CHOOSE a \in keys : \A b \in keys : a = b \/ KeyLess(a, b)
         IN <<first>> \o SortKeys(keys \ {first})

\* df.groupby(['odate', 'oemail', 'orderamount', 'invoicenum']): the distinct
\* keys in sorted order, each with its rows in file order.
GroupBy(df) == SortKeys({GroupKey(df[i]) : i \in 1..Len(df)})

OrderItems(df, key) == SelectSeq(df, LAMBDA row : GroupKey(row) = key)

\* "Skip if invoice already exists".
AlwaysNew(invoice_num, existing) == FALSE

AlreadyExists(invoice_num, existing) == invoice_num \in existing

\* ensure_people and ensure_products give every e-mail and every item id of
\* the file the id of its row; the model names a person by the e-mail and a
\* product by the item id.
InvoiceTaken(st, invoice) == \E o \in st.orders : o.invoice_number = invoice

\* INSERT INTO orders ... ON CONFLICT (invoice_number) DO NOTHING, row by row.
RECURSIVE InsertOrders(_, _)
InsertOrders(st, batch) ==
    IF batch = <<>> THEN st
    ELSE LET o == Head(batch)
             row == [id |-> st.order_seq, person_id |-> o.person_id, date |-> o.date,
                     amount |-> o.amount, invoice_number |-> o.invoice_number]
             st1 == [st EXCEPT !.order_seq = @ + 1,
                               !.orders = IF InvoiceTaken(st, o.invoice_number)
                                          THEN @ ELSE @ \cup {row}]
         IN InsertOrders(st1, Tail(batch))

\* all_orders: the id of the stored order of an invoice number.
AllOrders(st, invoice) == (CHOOSE o \in st.orders : o.invoice_number = invoice).id

\* INSERT INTO line_items for the items of the batch, each under the stored
\* order of the invoice of its order_index.
RECURSIVE InsertLineItems(_, _, _)
InsertLineItems(st, items, batch) ==
    IF items = <<>> THEN st
    ELSE LET item == Head(items)
             invoice == batch[item.order_index + 1].invoice_number
             row == [id |-> st.item_seq, order_id |-> AllOrders(st, invoice),
                     product_id |-> item.product_id]
             st1 == IF InvoiceTaken(st, invoice)
                    THEN [st EXCEPT !.item_seq = @ + 1, !.line_items = @ \cup {row}]
                    ELSE st
         IN InsertLineItems(st1, Tail(items), batch)

\* _process_batch: the orders, then the line items, then the commit.
ProcessBatch(st, batch, items) == InsertLineItems(InsertOrders(st, batch), items, batch)

\* What may fail in _process_batch: the INSERT of the orders, the INSERT of
\* the line items, the commit.
BatchFaults == {"orders", "line_items", "commit"}

\* _process_batch when fault raises: self.conn.rollback() undoes the rows
\* the statements before it wrote; the values they drew from the id
\* sequences are spent.
ProcessBatchRaising(st, batch, items, fault) ==
    LET with_orders == InsertOrders(st, batch)
        with_items == InsertLineItems(with_orders, items, batch)
    IN  CASE fault = "orders" -> st
          [] fault = "line_items" -> [st EXCEPT !.order_seq = with_orders.order_seq]
          [] fault = "commit" -> [st EXCEPT !.order_seq = with_items.order_seq,
                                            !.item_seq = with_items.item_seq]

\* The rows of the files: one date and amount, two payers, invoice cells 1, 2
\* and empty, one item.
S4SRows ==
    [odate : {1}, oemail : {1, 2}, orderamount : {10}, invoicenum : {1, 2, NaN},
     itemid : {1}]

S4SFiles == UNION {[1..n -> S4SRows] : n \in 1..MaxRows}

PriorS4SStore ==
    [orders |-> {[id |-> 1, person_id |-> 1, date |-> 1, amount |-> 10,
                  invoice_number |-> InvoiceText(1, "int")]},
     line_items |-> {[id |-> 1, order_id |-> 1, product_id |-> 1]},
     order_seq |-> 2, item_seq |-> 2]

\* ------------------------------- CombinedOrderImporter.ensure_companies
\* company_data is a list of (name, domain) pairs; a domain may be null.
NullDomain == "NaN"

CompanyPairs == {<<name, domain>> : name \in {"X", "Y"},
                                    domain \in {"x.com", "y.com", NullDomain}}

CompanyData == UNION {[1..n -> CompanyPairs] : n \in 0..MaxPairs}

\* [(name, domain) for name, domain in company_data if pd.notna(domain)]
ValidCompanyData(company_data) ==
    SelectSeq(company_data, LAMBDA pair : pair[2] # NullDomain)

\* tmp_companies after INSERT ... ON CONFLICT (domain) DO NOTHING: of the
\* pairs with one domain the first is kept.
TmpCompanies(valid) ==
    {[name |-> valid[i][1], domain |-> valid[i][2]] :
        i \in {i \in 1..Len(valid) : \A j \in 1..(i - 1) : valid[j][2] # valid[i][2]}}

\* As NewCompanies without the anti-join.
NewCompaniesUnfiltered(companies, tmp) == tmp

\* SELECT t.name, t.domain FROM tmp_companies t
\* LEFT JOIN companies c ON c.domain = t.domain WHERE c.id IS NULL
NewCompanies(companies, tmp) ==
    {t \in tmp : \A c \in companies : c.domain # t.domain}

\* The statement "WITH new_companies AS (INSERT ... RETURNING domain, id)
\* SELECT ... UNION ALL SELECT ...": the new rows get the next ids of the
\* sequence in an order the statement does not fix; the rows fetched are
\* those of the companies the statement started from whose domain is in
\* tmp_companies, and the new ones.
EnsureCompanies(companies, seq, company_data) ==
    LET tmp == TmpCompanies(ValidCompanyData(company_data))
        new == NewCompanies(companies, tmp)
        ids == seq..(seq + Cardinality(new) - 1)
    IN  {[companies |-> companies \cup
                           {[id |-> f[t], name |-> t.name, domain |-> t.domain]
                               : t \in new},
          seq |-> seq + Cardinality(new),
          rows |-> {<<c.domain, c.id>> :
                       c \in {c \in companies :
                                 \E t \in tmp : t.domain = c.domain}}
                   \cup {<<t.domain, f[t]>> : t \in new}]
            : f \in {f \in [new -> ids] :
                        \A t, u \in new : t # u => f[t] # f[u]}}

\* dict(cur.fetchall()): one pair per key; of the pairs with one key one
\* is kept.
Dict(rows) ==
    {m \in SUBSET rows :
        /\ \A r \in rows : \E k \in m : k[1] = r[1]
        /\ \A k, l \in m : k[1] = l[1] => k = l}

\* ------------------------------------------------------------ the state
VARIABLES
    valid_records,     \* the records run() collected from the file
    store,             \* committed tables
    seq,               \* id sequences
    runNo,             \* runs started so far
    pc,                \* "idle", "person", "product", "order", "done"
    idx,               \* index of the record being processed
    dry_run, fba_user_counter, simulated_ids, operations_log, errors,
    pending, aborted,  \* the transaction of self.conn
    person_id, product_id,  \* locals of process_record
    decisions, calls,  \* history: decisions and find_or_create_company calls
    chosen,            \* history: per record the e-mail handle_person chose
    person_calls,      \* history: per record the handle_person call
    order_call,        \* history: the last create_order call
    outcome,           \* history: per record "ok" or the exception raised
    made,              \* history: per record the ids create_order inserted
    start,             \* history: what the connection saw when the run began
    prev               \* history: the previous run

\* The state of CombinedOrderImporter.process and of the tables it writes.
VARIABLES
    s4s_file,          \* the rows of the CSV file
    s4s_store,         \* committed orders and line_items, and their sequences
    s4s_run,           \* runs of process started so far
    s4s_pc,            \* "idle", "groups", "final", "done"
    s4s_groups,        \* the groups of df.groupby, in its order
    s4s_i,             \* index of the group the loop is at
    existing_invoices, order_batch, line_items_batch,
    orders_created, orders_skipped, line_items_created,
    s4s_start          \* history: the tables when the run began

\* The reading loop of QBSalesParser.run.
VARIABLES
    csv_rows,          \* the rows csv.DictReader yields
    line_limit,        \* self.line_limit: <<>> for None, <<n>> for n
    row_num,           \* rows read so far
    read_pc,           \* "idle", "reading", "read", "raised"
    collected,         \* run's valid_records while it reads
    read_errors,       \* self.errors while the file is read
    parsed             \* history: per row what parse_row did

qbVars == <<valid_records, store, seq, runNo, pc, idx, dry_run, fba_user_counter,
            simulated_ids, operations_log, errors, pending, aborted, person_id,
            product_id, decisions, calls, chosen, person_calls, order_call, outcome,
            made, start, prev>>

\* The failures of the database under CombinedOrderImporter._process_batch.
VARIABLES
    s4s_faults,        \* whether a statement or the commit of a batch may fail
    batch_call         \* history: the last call of _process_batch

s4sVars == <<s4s_file, s4s_store, s4s_run, s4s_pc, s4s_groups, s4s_i,
             existing_invoices, order_batch, line_items_batch, orders_created,
             orders_skipped, line_items_created, s4s_start, s4s_faults,
             batch_call>>

\* Live runs of the parser that share one store.
VARIABLES
    race_store,        \* committed companies and products
    race_seq,          \* their id sequences
    race               \* per run: where it is, its transaction, its calls

\* The companies table as CombinedOrderImporter.ensure_companies reads and
\* writes it.
VARIABLES
    imp_companies,     \* the rows of companies
    imp_seq,           \* its id sequence
    imp_calls,         \* calls made so far
    imp_call           \* history: the last call, its input and its result

\* One call of AddressParser.parse.
VARIABLES
    addr_in,           \* the address handed to parse, by its components
    addr_out           \* <<>> before the call, then <<what parse did>>

addrVars == <<addr_in, addr_out>>

\* The companies and people tables as PeopleImporter.run reads and writes
\* them.
VARIABLES
    ppl_companies,     \* the rows of companies
    ppl_people,        \* the rows of people
    ppl_seq,           \* the id sequence of companies
    ppl_runs,          \* runs made so far
    ppl_run            \* history: the last run, its file and the people before it

peopleVars == <<ppl_companies, ppl_people, ppl_seq, ppl_runs, ppl_run>>

\* CompanyEnricher.run over the companies table.
VARIABLES
    enr_companies,     \* the rows of companies, by id
    enr_pc,            \* "idle", "select", "enrich", "done"
    enr_company,       \* the company get_next_company returned
    enr_stats,         \* self.stats
    enr_selected       \* history: the ids get_next_company returned in the run

enrichVars == <<enr_companies, enr_pc, enr_company, enr_stats, enr_selected>>

\* One invocation of the import command.
VARIABLES
    main_argv,         \* the command line: the model and the CSV file
    main_db,           \* whether the database accepts connections
    main_pc,           \* "idle", "start", "parsed", "exited"
    main_outcome       \* how main ended

mainVars == <<main_argv, main_db, main_pc, main_outcome>>

readVars == <<csv_rows, line_limit, row_num, read_pc, collected, read_errors, parsed>>

raceVars == <<race_store, race_seq, race>>

ensureVars == <<imp_companies, imp_seq, imp_calls, imp_call>>

vars == <<qbVars, s4sVars, readVars, raceVars, ensureVars,
         addrVars,
         peopleVars,
         enrichVars,
         mainVars>>

World ==
    [store |-> store, pending |-> pending, aborted |-> aborted, seq |-> seq,
     dry_run |-> dry_run, fba_user_counter |-> fba_user_counter,
     simulated_ids |-> simulated_ids, operations_log |-> operations_log,
     decisions |-> decisions, calls |-> calls, chosen |-> chosen]

SetWorld(w) ==
    /\ store' = w.store
    /\ pending' = w.pending
    /\ aborted' = w.aborted
    /\ seq' = w.seq
    /\ fba_user_counter' = w.fba_user_counter
    /\ simulated_ids' = w.simulated_ids
    /\ operations_log' = w.operations_log
    /\ decisions' = w.decisions
    /\ calls' = w.calls
    /\ chosen' = w.chosen

NoCall == [made |-> FALSE, stored |-> {}, raised |-> "none", order_id |-> None]
NoRun == [ran |-> FALSE, dry_run |-> FALSE, decisions |-> <<>>]

EmptyS4SStore == [orders |-> {}, line_items |-> {}, order_seq |-> 1, item_seq |-> 1]

NoBatchCall == [made |-> FALSE, batch |-> <<>>, items |-> <<>>,
                before |-> EmptyS4SStore, after |-> EmptyS4SStore,
                raised |-> FALSE]

S4SIdle ==
    /\ s4s_file = <<>>
    /\ s4s_store = EmptyS4SStore
    /\ s4s_run = 0
    /\ s4s_pc = "idle"
    /\ s4s_groups = <<>>
    /\ s4s_i = 0
    /\ existing_invoices = {}
    /\ order_batch = <<>>
    /\ line_items_batch = <<>>
    /\ orders_created = 0
    /\ orders_skipped = 0
    /\ line_items_created = 0
    /\ s4s_start = EmptyS4SStore
    /\ s4s_faults = FALSE
    /\ batch_call = NoBatchCall

QBIdle(file, tables) ==
    /\ valid_records = file
    /\ store = tables
    /\ seq = [t \in Tables |-> Cardinality(tables[t]) + 1]
    /\ runNo = 0
    /\ pc = "idle"
    /\ idx = 0
    /\ dry_run = FALSE
    /\ fba_user_counter = 0
    /\ simulated_ids = [company |-> 1, person |-> 1, product |-> 1,
                        order |-> 1, line_item |-> 1]
    /\ operations_log = <<>>
    /\ errors = <<>>
    /\ pending = EmptyTables
    /\ aborted = FALSE
    /\ person_id = None
    /\ product_id = None
    /\ decisions = <<>>
    /\ calls = <<>>
    /\ chosen = <<>>
    /\ person_calls = <<>>
    /\ order_call = NoCall
    /\ outcome = <<>>
    /\ made = <<>>
    /\ start = tables
    /\ prev = NoRun

NoPeopleRun == [made |-> FALSE, file |-> <<>>, before |-> {}]

PeopleIdle ==
    /\ ppl_companies = {}
    /\ ppl_people = {}
    /\ ppl_seq = 1
    /\ ppl_runs = 0
    /\ ppl_run = NoPeopleRun

NoCompany == 0

EnrichIdle ==
    /\ enr_companies = <<>>
    /\ enr_pc = "idle"
    /\ enr_company = NoCompany
    /\ enr_stats = [processed |-> 0, success |-> 0, failed |-> 0]
    /\ enr_selected = <<>>

MainIdle ==
    /\ main_argv = <<>>
    /\ main_db = FALSE
    /\ main_pc = "idle"
    /\ main_outcome = "none"

AddrIdle == addr_in = <<>> /\ addr_out = <<>>

NoEnsureCall == [made |-> FALSE, data |-> <<>>, before |-> {}, mapping |-> {}]

EnsureIdle ==
    /\ imp_companies = {}
    /\ imp_seq = 1
    /\ imp_calls = 0
    /\ imp_call = NoEnsureCall

RaceIdle ==
    /\ race_store = [companies |-> {}, products |-> {}]
    /\ race_seq = [companies |-> 1, products |-> 1]
    /\ race = <<>>

ReadIdle ==
    /\ csv_rows = <<>>
    /\ line_limit = <<>>
    /\ row_num = 0
    /\ read_pc = "idle"
    /\ collected = <<>>
    /\ read_errors = <<>>
    /\ parsed = <<>>

Init ==
    /\ \E file \in Files, tables \in InitialStores : QBIdle(file, tables)
    /\ MainIdle
    /\ EnrichIdle
    /\ PeopleIdle
    /\ AddrIdle
    /\ S4SIdle
    /\ RaceIdle
    /\ EnsureIdle
    /\ ReadIdle

\* ------------------------------------------------------------------- run
\* QBSalesParser(csv_path, dry_run) followed by run() up to the loop over
\* valid_records: a new connection, fresh counters and logs.
StartRun ==
    /\ pc = "idle"
    /\ runNo < MaxRuns
    /\ \E mode \in BOOLEAN : dry_run' = mode
    /\ runNo' = runNo + 1
    /\ fba_user_counter' = 0
    /\ simulated_ids' = [company |-> 1, person |-> 1, product |-> 1,
                         order |-> 1, line_item |-> 1]
    /\ operations_log' = <<>>
    /\ errors' = <<>>
    /\ pending' = EmptyTables
    /\ aborted' = FALSE
    /\ decisions' = <<>>
    /\ calls' = <<>>
    /\ chosen' = <<>>
    /\ person_calls' = <<>>
    /\ order_call' = NoCall
    /\ outcome' = <<>>
    /\ made' = <<>>
    /\ start' = store
    /\ idx' = 1
    /\ pc' = IF valid_records = <<>> THEN "done" ELSE "person"
    /\ UNCHANGED <<valid_records, store, seq, person_id, product_id, prev>>
    /\ UNCHANGED <<s4sVars, readVars, raceVars, ensureVars, addrVars, peopleVars, enrichVars, mainVars>>

\* process_record's except clause, then the next record of the loop.
NextRecord ==
    /\ idx' = idx + 1
    /\ pc' = IF idx + 1 > Len(valid_records) THEN "done" ELSE "person"

\* As Failed, the record left out of self.errors.
FailedUnrecorded(reason) ==
    /\ errors' = errors
    /\ outcome' = Append(outcome, reason)
    /\ NextRecord

Failed(reason) ==
    /\ errors' = Append(errors, [error |-> reason, record |-> valid_records[idx]])
    /\ outcome' = Append(outcome, reason)
    /\ NextRecord

\* process_record: person_id = self.handle_person(record)
HandlePersonStep ==
    /\ pc = "person"
    /\ \E r \in HandlePerson(World, valid_records[idx]) :
          /\ SetWorld(r.w)
          /\ person_calls' = Append(person_calls,
                 [matched |-> {f.val : f \in FindPerson(World,
                                                      r.w.chosen[Len(r.w.chosen)],
                                                      valid_records[idx].phone,
                                                      valid_records[idx].name)}
                                 \ {None},
                  raised |-> r.raised, val |-> r.val,
                  unchanged |-> View(r.w).people = View(World).people])
          /\ IF r.raised = "none"
             THEN /\ person_id' = r.val
                  /\ pc' = "product"
                  /\ UNCHANGED <<idx, errors, outcome, made>>
             ELSE /\ Failed(r.raised)
                  /\ made' = Append(made, [order |-> None, line_item |-> None])
                  /\ UNCHANGED person_id
    /\ UNCHANGED <<valid_records, runNo, dry_run, product_id, order_call, start, prev>>
    /\ UNCHANGED <<s4sVars, readVars, raceVars, ensureVars, addrVars, peopleVars, enrichVars, mainVars>>

\* process_record: product_id = self.find_or_create_product(record)
FindOrCreateProductStep ==
    /\ pc = "product"
    /\ \E r \in FindOrCreateProduct(World, valid_records[idx]) :
          /\ SetWorld(r.w)
          /\ IF r.raised = "none"
             THEN /\ product_id' = r.val
                  /\ pc' = "order"
                  /\ UNCHANGED <<idx, errors, outcome, made>>
             ELSE /\ Failed(r.raised)
                  /\ made' = Append(made, [order |-> None, line_item |-> None])
                  /\ UNCHANGED product_id
    /\ UNCHANGED <<valid_records, runNo, dry_run, person_id, person_calls, order_call,
                   start, prev>>
    /\ UNCHANGED <<s4sVars, readVars, raceVars, ensureVars, addrVars, peopleVars, enrichVars, mainVars>>

\* process_record: self.create_order(record, person_id, product_id)
CreateOrderStep ==
    /\ pc = "order"
    /\ \E rejected \in BOOLEAN :
          LET record == valid_records[idx]
              r == CreateOrder(World, record, person_id, product_id, rejected)
              stored == {o.id : o \in {o \in View(World).orders :
                                          o.order_number = record.order_number}}
              order_id == IF r.raised = "none" THEN r.val[1]
                          ELSE IF r.raised = "DataError" THEN seq.orders
                          ELSE None
          IN  /\ SetWorld(r.w)
              /\ order_call' = [made |-> TRUE, stored |-> stored,
                                raised |-> r.raised, order_id |-> order_id]
              /\ made' = Append(made,
                      [order |-> IF dry_run THEN None ELSE order_id,
                       line_item |-> IF r.raised = "none" /\ ~dry_run
                                     THEN r.val[2] ELSE None])
              /\ IF r.raised = "none"
                 THEN /\ outcome' = Append(outcome, "ok")
                      /\ NextRecord
                      /\ UNCHANGED errors
                 ELSE Failed(r.raised)
    /\ UNCHANGED <<valid_records, runNo, dry_run, person_id, product_id, person_calls,
                   start, prev>>
    /\ UNCHANGED <<s4sVars, readVars, raceVars, ensureVars, addrVars, peopleVars, enrichVars, mainVars>>

\* The decisions of the run in progress, ids left out: in a dry run they are
\* the entries of the operation log.
RunDecisions ==
    IF dry_run
    THEN LET res == SelectSeq(operations_log, LAMBDA e : e.operation # "create_order")
         IN  [i \in 1..Len(res) |->
                 <<res[i].operation,
                   IF res[i].status = "would_create" THEN "create" ELSE "found">>]
    ELSE decisions

\* run() has returned and the process ends: the connection is closed with
\* its transaction open, which the server rolls back.
Close ==
    /\ pc = "done"
    /\ pc' = "idle"
    /\ pending' = EmptyTables
    /\ aborted' = FALSE
    /\ prev' = [ran |-> TRUE, dry_run |-> dry_run, decisions |-> RunDecisions]
    /\ UNCHANGED <<valid_records, store, seq, runNo, idx, dry_run, fba_user_counter,
                   simulated_ids, operations_log, errors, person_id, product_id,
                   decisions, calls, chosen, person_calls, order_call, outcome,
                   made, start>>
    /\ UNCHANGED <<s4sVars, readVars, raceVars, ensureVars, addrVars, peopleVars, enrichVars, mainVars>>

Next ==
    \/ StartRun
    \/ HandlePersonStep
    \/ FindOrCreateProductStep
    \/ CreateOrderStep
    \/ Close

Spec == Init /\ [][Next]_vars

\* ------------------------------------------ CombinedOrderImporter.process
\* process up to the loop: the file is read and preprocessed, the stored
\* invoice numbers are read, the batches start empty.
S4SStart ==
    /\ s4s_pc \in {"idle", "done", "raised"}
    /\ s4s_run < MaxRuns
    /\ s4s_run' = s4s_run + 1
    /\ s4s_groups' = GroupBy(Preprocess(s4s_file))
    /\ s4s_i' = 1
    /\ existing_invoices' = {o.invoice_number : o \in s4s_store.orders}
    /\ order_batch' = <<>>
    /\ line_items_batch' = <<>>
    /\ orders_created' = 0
    /\ orders_skipped' = 0
    /\ line_items_created' = 0
    /\ s4s_start' = s4s_store
    /\ s4s_pc' = "groups"
    /\ batch_call' = NoBatchCall
    /\ UNCHANGED <<s4s_file, s4s_store, s4s_faults>>
    /\ UNCHANGED <<qbVars, readVars, raceVars, ensureVars, addrVars, peopleVars, enrichVars, mainVars>>

\* One iteration of the loop over the groups.
S4SGroup ==
    /\ s4s_pc = "groups"
    /\ s4s_i <= Len(s4s_groups)
    /\ \E fault \in (IF s4s_faults THEN BatchFaults \cup {"none"} ELSE {"none"}) :
       LET key == s4s_groups[s4s_i]
           order == [person_id |-> key[2], date |-> key[1], amount |-> key[3],
                     invoice_number |-> key[4]]
           batch == Append(order_batch, order)
           rows == OrderItems(Preprocess(s4s_file), key)
           items == line_items_batch \o
                    [k \in 1..Len(rows) |-> [order_index |-> Len(batch) - 1,
                                             product_id |-> rows[k].itemid]]
       IN IF AlreadyExists(key[4], existing_invoices)
          THEN /\ orders_skipped' = orders_skipped + 1
               /\ UNCHANGED <<s4s_store, existing_invoices, order_batch,
                              line_items_batch, orders_created, line_items_created,
                              s4s_pc, batch_call>>
          ELSE IF Len(batch) >= BatchSize /\ fault = "none"
          THEN /\ s4s_store' = ProcessBatch(s4s_store, batch, items)
               /\ batch_call' = [made |-> TRUE, batch |-> batch, items |-> items,
                                 before |-> s4s_store,
                                 after |-> ProcessBatch(s4s_store, batch, items),
                                 raised |-> FALSE]
               /\ orders_created' = orders_created + Len(batch)
               /\ line_items_created' = line_items_created + Len(items)
               /\ existing_invoices' = existing_invoices \cup
                                       {batch[k].invoice_number : k \in 1..Len(batch)}
               /\ order_batch' = <<>>
               /\ line_items_batch' = <<>>
               /\ UNCHANGED <<orders_skipped, s4s_pc>>
          ELSE IF Len(batch) >= BatchSize
          THEN /\ s4s_store' = ProcessBatchRaising(s4s_store, batch, items, fault)
               /\ batch_call' = [made |-> TRUE, batch |-> batch, items |-> items,
                                 before |-> s4s_store,
                                 after |-> ProcessBatchRaising(s4s_store, batch,
                                                               items, fault),
                                 raised |-> TRUE]
               /\ s4s_pc' = "raised"
               /\ order_batch' = batch
               /\ line_items_batch' = items
               /\ UNCHANGED <<existing_invoices, orders_created, orders_skipped,
                              line_items_created>>
          ELSE /\ order_batch' = batch
               /\ line_items_batch' = items
               /\ UNCHANGED <<s4s_store, existing_invoices, orders_created,
                              orders_skipped, line_items_created, s4s_pc, batch_call>>
    /\ s4s_i' = s4s_i + 1
    /\ UNCHANGED <<s4s_file, s4s_run, s4s_groups, s4s_start, s4s_faults>>
    /\ UNCHANGED <<qbVars, readVars, raceVars, ensureVars, addrVars, peopleVars, enrichVars, mainVars>>

\* "Process remaining batch" and the summary.
S4SFinal ==
    /\ s4s_pc = "groups"
    /\ s4s_i > Len(s4s_groups)
    /\ \E fault \in (IF s4s_faults THEN BatchFaults \cup {"none"} ELSE {"none"}) :
       IF order_batch # <<>> /\ fault = "none"
       THEN /\ s4s_store' = ProcessBatch(s4s_store, order_batch, line_items_batch)
            /\ batch_call' = [made |-> TRUE, batch |-> order_batch,
                              items |-> line_items_batch, before |-> s4s_store,
                              after |-> ProcessBatch(s4s_store, order_batch,
                                                     line_items_batch),
                              raised |-> FALSE]
            /\ orders_created' = orders_created + Len(order_batch)
            /\ line_items_created' = line_items_created + Len(line_items_batch)
            /\ s4s_pc' = "done"
       ELSE IF order_batch # <<>>
       THEN /\ s4s_store' = ProcessBatchRaising(s4s_store, order_batch,
                                                line_items_batch, fault)
            /\ batch_call' = [made |-> TRUE, batch |-> order_batch,
                              items |-> line_items_batch, before |-> s4s_store,
                              after |-> ProcessBatchRaising(s4s_store, order_batch,
                                                            line_items_batch, fault),
                              raised |-> TRUE]
            /\ s4s_pc' = "raised"
            /\ UNCHANGED <<orders_created, line_items_created>>
       ELSE /\ s4s_pc' = "done"
            /\ UNCHANGED <<s4s_store, orders_created, line_items_created, batch_call>>
    /\ UNCHANGED <<s4s_file, s4s_run, s4s_groups, s4s_i, existing_invoices,
                   order_batch, line_items_batch, orders_skipped, s4s_start,
                   s4s_faults>>
    /\ UNCHANGED <<qbVars, readVars, raceVars, ensureVars, addrVars, peopleVars, enrichVars, mainVars>>

InitS4S ==
    /\ QBIdle(<<>>, EmptyTables)
    /\ MainIdle
    /\ EnrichIdle
    /\ PeopleIdle
    /\ AddrIdle
    /\ ReadIdle
    /\ RaceIdle
    /\ EnsureIdle
    /\ s4s_file \in S4SFiles
    /\ s4s_store \in {EmptyS4SStore, PriorS4SStore}
    /\ s4s_run = 0
    /\ s4s_pc = "idle"
    /\ s4s_groups = <<>>
    /\ s4s_i = 0
    /\ existing_invoices = {}
    /\ order_batch = <<>>
    /\ line_items_batch = <<>>
    /\ orders_created = 0
    /\ orders_skipped = 0
    /\ line_items_created = 0
    /\ s4s_start = s4s_store
    /\ s4s_faults = FALSE
    /\ batch_call = NoBatchCall

NextS4S ==
    \/ S4SStart
    \/ S4SGroup
    \/ S4SFinal

SpecS4S == InitS4S /\ [][NextS4S]_vars

\* The same runs over a database whose statements and commits may fail.
InitBatch ==
    /\ QBIdle(<<>>, EmptyTables)
    /\ MainIdle
    /\ EnrichIdle
    /\ PeopleIdle
    /\ AddrIdle
    /\ ReadIdle
    /\ RaceIdle
    /\ EnsureIdle
    /\ s4s_file \in S4SFiles
    /\ s4s_store \in {EmptyS4SStore, PriorS4SStore}
    /\ s4s_run = 0
    /\ s4s_pc = "idle"
    /\ s4s_groups = <<>>
    /\ s4s_i = 0
    /\ existing_invoices = {}
    /\ order_batch = <<>>
    /\ line_items_batch = <<>>
    /\ orders_created = 0
    /\ orders_skipped = 0
    /\ line_items_created = 0
    /\ s4s_start = s4s_store
    /\ s4s_faults = TRUE
    /\ batch_call = NoBatchCall

SpecBatch == InitBatch /\ [][NextS4S]_vars

\* ------------------------------------------------ run: reading the file
\* if self.line_limit and processed_count >= self.line_limit
LimitReached(processed_count) ==
    /\ line_limit # <<>>
    /\ line_limit[1] # 0
    /\ processed_count >= line_limit[1]

\* One iteration of "for row_num, row in enumerate(reader, start=1)":
\* parse_row, then validate_record for a record, then valid_records.append.
\* A valid record that fills the line limit ends the loop.  An exception
\* parse_row lets through ends run, which raises it again.
ReadRow ==
    /\ read_pc = "reading"
    /\ row_num < Len(csv_rows)
    /\ LET n == row_num + 1
           r == ParseRow(csv_rows[n])
           failure == IF r.kind = "record" THEN ValidationFailure(r.record[1])
                      ELSE "none"
       IN  /\ row_num' = n
           /\ parsed' = Append(parsed, r)
           /\ read_pc' = IF r.kind = "raised" THEN "raised"
                         ELSE IF r.kind = "record" /\ failure = "none"
                                 /\ LimitReached(Len(collected) + 1)
                         THEN "read"
                         ELSE "reading"
           /\ collected' = IF r.kind = "record" /\ failure = "none"
                           THEN Append(collected, r.record[1]) ELSE collected
           /\ read_errors' =
                 IF r.kind = "error"
                 THEN Append(read_errors, [row |-> n, error |-> r.reason,
                                           by |-> "parse_row", data |-> csv_rows[n]])
                 ELSE IF r.kind = "record" /\ failure # "none"
                 THEN Append(read_errors, [row |-> n, error |-> failure,
                                           by |-> "validate_record",
                                           data |-> csv_rows[n]])
                 ELSE read_errors
    /\ UNCHANGED <<csv_rows, line_limit>>
    /\ UNCHANGED <<qbVars, s4sVars, raceVars, ensureVars, addrVars, peopleVars, enrichVars, mainVars>>

\* The reader is exhausted.
EndOfFile ==
    /\ read_pc = "reading"
    /\ row_num = Len(csv_rows)
    /\ read_pc' = "read"
    /\ UNCHANGED <<csv_rows, line_limit, row_num, collected, read_errors, parsed>>
    /\ UNCHANGED <<qbVars, s4sVars, raceVars, ensureVars, addrVars, peopleVars, enrichVars, mainVars>>

InitRead ==
    /\ QBIdle(<<>>, EmptyTables)
    /\ MainIdle
    /\ EnrichIdle
    /\ PeopleIdle
    /\ AddrIdle
    /\ S4SIdle
    /\ RaceIdle
    /\ EnsureIdle
    /\ csv_rows \in ReadFiles
    /\ line_limit = <<>>
    /\ row_num = 0
    /\ read_pc = "reading"
    /\ collected = <<>>
    /\ read_errors = <<>>
    /\ parsed = <<>>

NextRead ==
    \/ ReadRow
    \/ EndOfFile

SpecRead == InitRead /\ [][NextRead]_vars

\* --------------------------------------------- run: reading, then processing
\* run past its reading loop, at "for record in valid_records": the records
\* collected are the ones processed, with the counters and logs of the new
\* QBSalesParser and its new connection.
ProcessCollected ==
    /\ read_pc = "read"
    /\ pc = "idle"
    /\ runNo = 0
    /\ valid_records' = collected
    /\ \E mode \in BOOLEAN : dry_run' = mode
    /\ runNo' = runNo + 1
    /\ fba_user_counter' = 0
    /\ simulated_ids' = [company |-> 1, person |-> 1, product |-> 1,
                         order |-> 1, line_item |-> 1]
    /\ operations_log' = <<>>
    /\ errors' = <<>>
    /\ pending' = EmptyTables
    /\ aborted' = FALSE
    /\ decisions' = <<>>
    /\ calls' = <<>>
    /\ chosen' = <<>>
    /\ person_calls' = <<>>
    /\ order_call' = NoCall
    /\ outcome' = <<>>
    /\ made' = <<>>
    /\ start' = store
    /\ idx' = 1
    /\ pc' = IF collected = <<>> THEN "done" ELSE "person"
    /\ UNCHANGED <<store, seq, person_id, product_id, prev>>
    /\ UNCHANGED <<s4sVars, readVars, raceVars, ensureVars, addrVars, peopleVars, enrichVars, mainVars>>

\* self.stats as run's "finally" sets it, when the reading loop has ended
\* and before any record is processed; nothing changes it afterwards.
Stats ==
    [total_rows |-> row_num, valid_records |-> Len(collected),
     errors |-> Len(read_errors)]

\* self.errors: the entries of parse_row and validate_record, then those of
\* process_record.
ErrorList == read_errors \o errors

InitRun ==
    /\ \E tables \in {EmptyTables, WithShipping(EmptyTables)} : QBIdle(<<>>, tables)
    /\ MainIdle
    /\ EnrichIdle
    /\ PeopleIdle
    /\ AddrIdle
    /\ S4SIdle
    /\ RaceIdle
    /\ EnsureIdle
    /\ csv_rows \in RunFiles
    /\ line_limit \in LineLimits
    /\ row_num = 0
    /\ read_pc = "reading"
    /\ collected = <<>>
    /\ read_errors = <<>>
    /\ parsed = <<>>

NextRun ==
    \/ ReadRow
    \/ EndOfFile
    \/ ProcessCollected
    \/ HandlePersonStep
    \/ FindOrCreateProductStep
    \/ CreateOrderStep
    \/ Close

SpecRun == InitRun /\ [][NextRun]_vars

\* ------------------------------------------- live runs sharing one store
\* Each run is its own process with its own connection (self.conn) and its
\* own open transaction; it calls find_or_create_company and
\* ensure_shipping_product, one SQL statement per step, and ends by closing
\* its connection, which rolls its transaction back: the parser never
\* commits.  pending holds the company rows of the run's open transaction.
RaceRuns == 1..MaxRaceRuns

RaceDomains == {"x.com", "y.com"}

ShippingRow(id) ==
    [id |-> id, name |-> <<"Shipping">>, description |-> <<"Shipping charges">>,
     sku |-> SHIPPING]

RaceStores ==
    {[companies |-> {}, products |-> {}],
     [companies |-> {[id |-> 1, name |-> "x.com", domain |-> "x.com"]},
      products |-> {}],
     [companies |-> {}, products |-> {ShippingRow(1)}]}

\* The call of run p has returned v or raised.
Returned_(p, op, arg, raised, v) ==
    [race EXCEPT ![p].pc = "idle",
                 ![p].calls = Append(@, [op |-> op, arg |-> arg,
                                         raised |-> raised, val |-> v])]

\* find_or_create_company(email) of run p up to its SELECT on self.conn,
\* which reads the committed rows and those of the run's transaction.
CallCompany(p) ==
    /\ race[p].pc = "idle"
    /\ Len(race[p].calls) < MaxCalls
    /\ \E domain \in RaceDomains :
          LET found == {c.id : c \in {c \in race_store.companies \cup race[p].pending :
                                         c.domain = domain}}
          IN  IF found # {}
              THEN \E id \in found :
                       race' = Returned_(p, "company", domain, "none", id)
              ELSE race' = [race EXCEPT ![p].pc = "company_insert",
                                        ![p].domain = domain]
    /\ UNCHANGED <<race_store, race_seq>>
    /\ UNCHANGED <<qbVars, s4sVars, readVars, ensureVars, addrVars, peopleVars, enrichVars, mainVars>>

\* INSERT INTO companies ... RETURNING id on self.conn: the row joins the
\* run's open transaction.  No committed row has the domain, since the
\* SELECT found none and no run commits.  Were domain a unique key, the
\* statement would wait while another transaction holds an uncommitted row
\* of the domain and go on when that transaction is rolled back: these are
\* among the interleavings below.
CompanyInsert(p) ==
    /\ race[p].pc = "company_insert"
    /\ race' = [Returned_(p, "company", race[p].domain, "none", race_seq.companies)
                   EXCEPT ![p].pending = race[p].pending \cup
                              {[id |-> race_seq.companies,
                                name |-> race[p].domain,
                                domain |-> race[p].domain]}]
    /\ race_seq' = [race_seq EXCEPT !.companies = @ + 1]
    /\ UNCHANGED race_store
    /\ UNCHANGED <<qbVars, s4sVars, readVars, ensureVars, addrVars, peopleVars, enrichVars, mainVars>>

\* ensure_shipping_product of run p up to its SELECT on self.conn.
CallShipping(p) ==
    /\ race[p].pc = "idle"
    /\ Len(race[p].calls) < MaxCalls
    /\ LET found == {r.id : r \in {r \in race_store.products : r.sku = SHIPPING}}
       IN  IF found # {}
           THEN \E id \in found : race' = Returned_(p, "shipping", "", "none", id)
           ELSE race' = [race EXCEPT ![p].pc = "connect"]
    /\ UNCHANGED <<race_store, race_seq>>
    /\ UNCHANGED <<qbVars, s4sVars, readVars, ensureVars, addrVars, peopleVars, enrichVars, mainVars>>

\* The new connection with autocommit and its SELECT ("double-check").
ShippingSecondSelect(p) ==
    /\ race[p].pc = "connect"
    /\ LET found == {r.id : r \in {r \in race_store.products : r.sku = SHIPPING}}
       IN  IF found # {}
           THEN \E id \in found : race' = Returned_(p, "shipping", "", "none", id)
           ELSE race' = [race EXCEPT ![p].pc = "shipping_insert"]
    /\ UNCHANGED <<race_store, race_seq>>
    /\ UNCHANGED <<qbVars, s4sVars, readVars, ensureVars, addrVars, peopleVars, enrichVars, mainVars>>

\* INSERT INTO products ... RETURNING id on the new connection: committed at
\* once; sku is a unique key, and "except Exception: ... raise" hands the
\* violation to the caller.
ShippingInsert(p) ==
    /\ race[p].pc = "shipping_insert"
    /\ IF \E r \in race_store.products : r.sku = SHIPPING
       THEN /\ race' = Returned_(p, "shipping", "", "UniqueViolation", None)
            /\ UNCHANGED race_store
       ELSE /\ race' = Returned_(p, "shipping", "", "none", race_seq.products)
            /\ race_store' = [race_store EXCEPT !.products =
                                  @ \cup {ShippingRow(race_seq.products)}]
    /\ race_seq' = [race_seq EXCEPT !.products = @ + 1]
    /\ UNCHANGED <<qbVars, s4sVars, readVars, ensureVars, addrVars, peopleVars, enrichVars, mainVars>>

\* The run ends: the process exits and its connection is closed with the
\* transaction open.
RunEnd(p) ==
    /\ race[p].pc = "idle"
    /\ race' = [race EXCEPT ![p].pc = "ended", ![p].pending = {}]
    /\ UNCHANGED <<race_store, race_seq>>
    /\ UNCHANGED <<qbVars, s4sVars, readVars, ensureVars, addrVars, peopleVars, enrichVars, mainVars>>

InitRace ==
    /\ QBIdle(<<>>, EmptyTables)
    /\ MainIdle
    /\ EnrichIdle
    /\ PeopleIdle
    /\ AddrIdle
    /\ S4SIdle
    /\ ReadIdle
    /\ EnsureIdle
    /\ race_store \in RaceStores
    /\ race_seq = [companies |-> 2, products |-> 2]
    /\ race = [p \in RaceRuns |-> [pc |-> "idle", domain |-> "", pending |-> {},
                                   calls |-> <<>>]]

NextRace ==
    \E p \in RaceRuns :
        \/ CallCompany(p)
        \/ CompanyInsert(p)
        \/ CallShipping(p)
        \/ ShippingSecondSelect(p)
        \/ ShippingInsert(p)
        \/ RunEnd(p)

SpecRace == InitRace /\ [][NextRace]_vars

\* ------------------------------- CombinedOrderImporter.ensure_companies
\* One call of ensure_companies in the transaction of a run, which calls it
\* once (through ensure_people), so that tmp_companies does not exist yet.
EnsureCompaniesCall ==
    /\ imp_calls < MaxEnsureCalls
    /\ \E company_data \in CompanyData :
          \E r \in EnsureCompanies(imp_companies, imp_seq, company_data) :
              \E mapping \in Dict(r.rows) :
                  /\ imp_companies' = r.companies
                  /\ imp_seq' = r.seq
                  /\ imp_call' = [made |-> TRUE, data |-> company_data,
                                  before |-> imp_companies, mapping |-> mapping]
    /\ imp_calls' = imp_calls + 1
    /\ UNCHANGED <<qbVars, s4sVars, readVars, raceVars, addrVars, peopleVars, enrichVars, mainVars>>

InitEnsure ==
    /\ QBIdle(<<>>, EmptyTables)
    /\ MainIdle
    /\ EnrichIdle
    /\ PeopleIdle
    /\ AddrIdle
    /\ S4SIdle
    /\ ReadIdle
    /\ RaceIdle
    /\ imp_companies \in {{}, {[id |-> 1, name |-> "X", domain |-> "x.com"]}}
    /\ imp_seq = 2
    /\ imp_calls = 0
    /\ imp_call = NoEnsureCall

NextEnsure == EnsureCompaniesCall

SpecEnsure == InitEnsure /\ [][NextEnsure]_vars

\* ------------------------------------------------- AddressParser.parse
\* str.strip(chars): the text without the characters of chars at its ends.
RECURSIVE LStripChars(_, _)
LStripChars(s, chars) ==
    IF s # <<>> /\ Head(s) \in chars THEN LStripChars(Tail(s), chars) ELSE s

RECURSIVE RStripChars(_, _)
RStripChars(s, chars) ==
    IF s # <<>> /\ s[Len(s)] \in chars
    THEN RStripChars(SubSeq(s, 1, Len(s) - 1), chars)
    ELSE s

StripChars(s, chars) == RStripChars(LStripChars(s, chars), chars)

Blank == {" ", "\t"}

\* re.search(r'(\d{5})(?:-\d{4})?', s): <<>> without a match, else <<group 1>>,
\* the first five digits in a row anywhere in the text.
ZipSearch(s) ==
    LET hits == {i \in 1..(Len(s) - 4) : AllDigits(s, i, i + 4)}
    IN  IF hits = {} THEN <<>>
        ELSE LET m == CHOOSE i \in hits : \A j \in hits : i <= j
             IN  <<SubSeq(s, m, m + 4)>>

\* re.split(r',\s*', s): the pieces between commas, the blanks that follow a
\* comma dropped with it.
RECURSIVE SplitCommas(_)
SplitCommas(s) ==
    LET commas == {i \in 1..Len(s) : s[i] = ","}
    IN  IF commas = {} THEN <<s>>
        ELSE LET c == CHOOSE i \in commas : \A j \in commas : i <= j
             IN  <<SubSeq(s, 1, c - 1)>>
                     \o SplitCommas(LStripChars(SubSeq(s, c + 1, Len(s)), Blank))

\* str.split(): the words between runs of blanks.
RECURSIVE SplitWords(_)
SplitWords(s) ==
    LET t == LStripChars(s, Blank)
        ends == {i \in 1..Len(t) : t[i] \in Blank}
        e == IF ends = {} THEN Len(t) + 1
             ELSE CHOOSE i \in ends : \A j \in ends : i <= j
    IN  IF t = <<>> THEN <<>>
        ELSE <<SubSeq(t, 1, e - 1)>> \o SplitWords(SubSeq(t, e, Len(t)))

US == <<"U", "S">>

\* Address(street, city, state, zip_code), country left at its default.
Address(street, city, state, zip_code) ==
    [raised |-> FALSE, street |-> street, city |-> city, state |-> state,
     zip_code |-> zip_code, country |-> US]

AddressError == [raised |-> TRUE]

\* AddressParser.parse(address_str): the Address returned, or AddressError
\* for the ValueError raised.
AddressParserParse(address_str) ==
    LET s == StripChars(address_str, {" ", ","})
        zip_match == ZipSearch(s)
        pieces == SplitCommas(s)
        parts == [i \in 1..Len(pieces) |-> StripChars(pieces[i], Blank)]
        state_zip == SplitWords(parts[Len(parts)])
    IN  IF zip_match = <<>> THEN AddressError
        ELSE IF Len(parts) < 2 THEN AddressError
        ELSE IF Len(state_zip) < 2 THEN AddressError
        ELSE Address(parts[1],
                     IF Len(parts) > 2 THEN parts[2] ELSE <<>>,
                     state_zip[1],
                     zip_match[1])

\* Addresses, by their components: what precedes the street, the street, the
\* pieces between the street and the last piece, and the words of the last
\* piece.
Zip5 == <<"1", "0", "0", "0", "1">>
Zip9 == <<"0", "2", "8", "1", "6", "-", "7", "6", "1", "3">>
NY == <<"N", "Y">>
Rye == <<"R", "y", "e">>
Apt == <<"A", "p", "t", " ", "2">>

Streets ==
    { <<"1", " ", "A", "n", "y">>,
      <<"1", "2", "3", "4", "5", "6", " ", "E", "l", "m">>,
      <<"7", " ", "O", "a", "k", " ", "S", "t">> }

Leads == { <<>>, <<",", " ">> }

Middles == { <<>>, <<Rye>>, <<Apt, Rye>> }

Lasts ==
    { <<NY, Zip5>>, <<NY, Zip9, US>>, <<NY>>, <<Zip5>>, <<NY, US>>, <<Zip5, US>> }

AddressInputs ==
    [lead : Leads, street : Streets, middle : Middles, last : Lasts]
        \cup [lead : Leads, street : Streets, middle : {<<>>}, last : {<<>>}]

RECURSIVE JoinWith(_, _)
JoinWith(seqs, sep) ==
    IF seqs = <<>> THEN <<>>
    ELSE IF Len(seqs) = 1 THEN seqs[1]
    ELSE seqs[1] \o sep \o JoinWith(Tail(seqs), sep)

\* The text of an address: its pieces joined by ", ", the words of the last
\* piece by a blank.
AddressText(a) ==
    a.lead \o JoinWith(<<a.street>> \o a.middle
                           \o (IF a.last = <<>> THEN <<>>
                               ELSE <<JoinWith(a.last, <<" ">>)>>),
                       <<",", " ">>)

ParseAddress ==
    /\ addr_out = <<>>
    /\ addr_in # <<>>
    /\ addr_out' = <<AddressParserParse(AddressText(addr_in[1]))>>
    /\ UNCHANGED addr_in
    /\ UNCHANGED <<qbVars, s4sVars, readVars, raceVars, ensureVars, peopleVars, enrichVars, mainVars>>

InitAddress ==
    /\ QBIdle(<<>>, EmptyTables)
    /\ MainIdle
    /\ EnrichIdle
    /\ PeopleIdle
    /\ S4SIdle
    /\ ReadIdle
    /\ RaceIdle
    /\ EnsureIdle
    /\ addr_in \in {<<a>> : a \in AddressInputs}
    /\ addr_out = <<>>

NextAddress == ParseAddress

SpecAddress == InitAddress /\ [][NextAddress]_vars

\* ------------------------------------------------- PeopleImporter.run
MaxPeopleRows == 2
MaxPeopleRuns == 2

Unknown == "unknown"

\* As EnsureUnknownCompany without the SELECT: the company is inserted
\* whether it is there or not.
EnsureUnknownCompanyAlwaysInsert(companies, next_id) ==
    {[companies |-> companies \cup {[id |-> next_id, name |-> "Unknown Company",
                                     domain |-> Unknown]},
      seq |-> next_id + 1, id |-> next_id]}

\* ensure_unknown_company: the id of a company with domain 'unknown',
\* inserted when the SELECT finds none.
EnsureUnknownCompany(companies, next_id) ==
    LET found == {c.id : c \in {c \in companies : c.domain = Unknown}}
    IN  IF found # {}
        THEN {[companies |-> companies, seq |-> next_id, id |-> id] : id \in found}
        ELSE {[companies |-> companies \cup {[id |-> next_id, name |-> "Unknown Company",
                                              domain |-> Unknown]},
               seq |-> next_id + 1, id |-> next_id]}

\* The rows of the people files: the e-mail, the company name and the
\* domain, which may be empty.
PeopleRows == [email : {1, 2}, company : {"X"}, domain : {"x.com", Unknown, NullDomain}]

PeopleFiles == UNION {[1..n -> PeopleRows] : n \in 0..MaxPeopleRows}

\* list(set(...)): the elements of the set in some order.
ListsOf(S) ==
    {l \in [1..Cardinality(S) -> S] : \A i, j \in 1..Cardinality(S) : i # j => l[i] # l[j]}

\* domain_to_id.get(row['domain'], unknown_company_id) if
\* pd.notna(row['domain']) else unknown_company_id
CompanyIdOf(row, domain_to_id, unknown_company_id) ==
    IF row.domain # NullDomain
    THEN IF \E k \in domain_to_id : k[1] = row.domain
         THEN (CHOOSE k \in domain_to_id : k[1] = row.domain)[2]
         ELSE unknown_company_id
    ELSE unknown_company_id

\* INSERT INTO people ... ON CONFLICT (email) DO NOTHING, row by row.
RECURSIVE InsertPeople(_, _)
InsertPeople(people, people_data) ==
    IF people_data = <<>> THEN people
    ELSE LET p == Head(people_data)
         IN  InsertPeople(IF \E q \in people : q.email = p.email
                          THEN people ELSE people \cup {p},
                          Tail(people_data))

\* One run of PeopleImporter over a file, from read_csv to the commit.
PeopleImporterRun ==
    /\ ppl_runs < MaxPeopleRuns
    /\ \E df \in PeopleFiles :
         \E u \in EnsureUnknownCompany(ppl_companies, ppl_seq) :
           \E company_data \in ListsOf({<<df[i].company, df[i].domain>> :
                                           i \in 1..Len(df)}) :
             \E r \in EnsureCompanies(u.companies, u.seq, company_data) :
               \E domain_to_id \in Dict(r.rows) :
                 LET people_data ==
                         [i \in 1..Len(df) |->
                             [email |-> df[i].email,
                              company_id |-> CompanyIdOf(df[i], domain_to_id, u.id)]]
                 IN  /\ ppl_people' = InsertPeople(ppl_people, people_data)
                     /\ ppl_companies' = r.companies
                     /\ ppl_seq' = r.seq
                     /\ ppl_run' = [made |-> TRUE, file |-> df, before |-> ppl_people]
    /\ ppl_runs' = ppl_runs + 1
    /\ UNCHANGED <<qbVars, s4sVars, readVars, raceVars, ensureVars, addrVars, enrichVars, mainVars>>

InitPeople ==
    /\ QBIdle(<<>>, EmptyTables)
    /\ MainIdle
    /\ EnrichIdle
    /\ AddrIdle
    /\ S4SIdle
    /\ ReadIdle
    /\ RaceIdle
    /\ EnsureIdle
    /\ ppl_companies \in {{}, {[id |-> 1, name |-> "X", domain |-> "x.com"]}}
    /\ ppl_seq = Cardinality(ppl_companies) + 1
    /\ ppl_people = {}
    /\ ppl_runs = 0
    /\ ppl_run = NoPeopleRun

NextPeople == PeopleImporterRun

SpecPeople == InitPeople /\ [][NextPeople]_vars

\* ------------------------------------------------- CompanyEnricher.run
MaxCompanies == 2
MaxIterations == 3

\* self.excluded_domains
ExcludedDomains == {"msn.com", "hotmail.com", "gmail.com", "comcast.net", "yahoo.com"}

\* The domains of the model with 'hotmail.', 'gmail.' or 'comcast.' in them.
LikeExcluded(domain) == domain \in {"gmail.com", "gmail.co.uk"}

\* A row of companies: its sales, its domain ("" for none), and whether
\* enrichment_data is set with an enriched_date within the last week.
EnrichRows == [total_sales : {0, 10}, domain : {"x.com", "gmail.co.uk", ""},
               enriched : BOOLEAN]

\* The WHERE clause of get_next_company.
Eligible(c) ==
    /\ ~c.enriched
    /\ c.domain # ""
    /\ c.domain \notin ExcludedDomains
    /\ ~LikeExcluded(c.domain)

\* ORDER BY total_sales DESC LIMIT 1: the ids of the rows one of which the
\* query returns.
NextCompanies(companies) ==
    {i \in DOMAIN companies :
        /\ Eligible(companies[i])
        /\ \A j \in DOMAIN companies :
              Eligible(companies[j]) => companies[j].total_sales <= companies[i].total_sales}

\* What the API may do with a request: answer 200, answer 404, or fail (any
\* other status, or no answer).
Responses == {"200", "404", "failed"}

\* run: company = self.get_next_company(), then the break or the count.
GetNextCompany ==
    /\ enr_pc = "select"
    /\ Len(enr_selected) < MaxIterations
    /\ IF NextCompanies(enr_companies) = {}
       THEN /\ enr_pc' = "done"
            /\ UNCHANGED <<enr_company, enr_stats, enr_selected>>
       ELSE \E i \in NextCompanies(enr_companies) :
               /\ enr_company' = i
               /\ enr_selected' = Append(enr_selected, i)
               /\ enr_stats' = [enr_stats EXCEPT !.processed = @ + 1]
               /\ enr_pc' = "enrich"
    /\ UNCHANGED enr_companies
    /\ UNCHANGED <<qbVars, s4sVars, readVars, raceVars, ensureVars, addrVars, peopleVars, mainVars>>

\* run: success = self.enrich_company(company)
EnrichCompany ==
    /\ enr_pc = "enrich"
    /\ \E response \in Responses :
          IF response = "200"
          THEN /\ enr_companies' = [enr_companies EXCEPT ![enr_company].enriched = TRUE]
               /\ enr_stats' = [enr_stats EXCEPT !.success = @ + 1]
          ELSE IF response = "404"
          THEN /\ enr_companies' = [enr_companies EXCEPT ![enr_company].enriched = TRUE]
               /\ enr_stats' = [enr_stats EXCEPT !.failed = @ + 1]
          ELSE /\ enr_companies' = enr_companies
               /\ enr_stats' = [enr_stats EXCEPT !.failed = @ + 1]
    /\ enr_pc' = "select"
    /\ UNCHANGED <<enr_company, enr_selected>>
    /\ UNCHANGED <<qbVars, s4sVars, readVars, raceVars, ensureVars, addrVars, peopleVars, mainVars>>

InitEnrich ==
    /\ QBIdle(<<>>, EmptyTables)
    /\ MainIdle
    /\ AddrIdle
    /\ PeopleIdle
    /\ S4SIdle
    /\ ReadIdle
    /\ RaceIdle
    /\ EnsureIdle
    /\ enr_companies \in UNION {[1..n -> EnrichRows] : n \in 0..MaxCompanies}
    /\ enr_pc = "select"
    /\ enr_company = NoCompany
    /\ enr_stats = [processed |-> 0, success |-> 0, failed |-> 0]
    /\ enr_selected = <<>>

NextEnrich ==
    \/ GetNextCompany
    \/ EnrichCompany

SpecEnrich == InitEnrich /\ [][NextEnrich]_vars

\* ------------------------------------------------- import-s4s.py: main
\* choices of the 'model' argument
Choices == {"people", "orders", "products", "line-items", "combined-order"}

\* The names the module binds at its top level besides its own classes and
\* functions: what it imports.
ModuleNames ==
    {"pd", "execute_values", "sys", "Dict", "Tuple", "List", "os", "time",
     "argparse", "BaseDBHandler", "console"}

\* The methods the importer classes define, read_csv coming from
\* BaseImporter.
ImporterMethods ==
    [m \in Choices |->
        CASE m = "people" -> {"read_csv", "ensure_unknown_company",
                              "ensure_companies", "run"}
          [] m = "orders" -> {"read_csv", "get_person_ids", "process"}
          [] m = "products" -> {"read_csv", "process"}
          [] m = "line-items" -> {"read_csv", "get_order_ids", "process"}
          [] m = "combined-order" -> {"read_csv", "ensure_unknown_company",
                                      "ensure_companies", "ensure_people",
                                      "ensure_products", "process", "_process_batch"}]

\* BaseDBHandler's abstract methods.
AbstractMethods == {"run"}

NoArg == ""

\* The files named on the command line: one that does not exist, two that do.
CsvFiles == {"missing.csv", "people.csv", "orders.csv"}

\* The command lines: any word as the model, a file or none.
CommandLines == [model : Choices \cup {"invoices"}, csv_file : CsvFiles \cup {NoArg}]

\* main after parse_args: the banner, the importer class, its construction
\* and importer.run(args.csv_file); the exception that ends it, or "read"
\* when run got to read the CSV file.
MainBody(args, db_up) ==
    IF "Panel" \notin ModuleNames THEN "NameError"
    ELSE IF ~(AbstractMethods \subseteq ImporterMethods[args.model]) THEN "TypeError"
    ELSE IF ~db_up THEN "OperationalError"
    ELSE IF args.csv_file = "missing.csv" THEN "FileNotFoundError"
    ELSE "read"

\* args = parser.parse_args(): argparse exits with a usage error on a model
\* that is not a choice and on a missing argument.
ParseArgs ==
    /\ main_pc = "start"
    /\ IF main_argv[1].model \in Choices /\ main_argv[1].csv_file # NoArg
       THEN main_pc' = "parsed" /\ main_outcome' = main_outcome
       ELSE main_pc' = "exited" /\ main_outcome' = "usage"
    /\ UNCHANGED <<main_argv, main_db>>
    /\ UNCHANGED <<qbVars, s4sVars, readVars, raceVars, ensureVars, addrVars, peopleVars,
                   enrichVars>>

\* The rest of main.
Main ==
    /\ main_pc = "parsed"
    /\ main_outcome' = MainBody(main_argv[1], main_db)
    /\ main_pc' = "exited"
    /\ UNCHANGED <<main_argv, main_db>>
    /\ UNCHANGED <<qbVars, s4sVars, readVars, raceVars, ensureVars, addrVars, peopleVars,
                   enrichVars>>

InitMain ==
    /\ QBIdle(<<>>, EmptyTables)
    /\ AddrIdle
    /\ PeopleIdle
    /\ EnrichIdle
    /\ S4SIdle
    /\ ReadIdle
    /\ RaceIdle
    /\ EnsureIdle
    /\ main_argv \in {<<c>> : c \in CommandLines}
    /\ main_db \in BOOLEAN
    /\ main_pc = "start"
    /\ main_outcome = "none"

NextMain ==
    \/ ParseArgs
    \/ Main

SpecMain == InitMain /\ [][NextMain]_vars

\* -------------------------------------------------- the dry-run summary
\* order_groups of the main program after run() over the first n entries of
\* the operation log: a dict in insertion order, given as the sequence of its
\* values.  An entry of the log is named by its index.
RECURSIVE OrderGroups(_, _)
OrderGroups(log, n) ==
    IF n = 0 THEN <<>>
    ELSE LET groups == OrderGroups(log, n - 1)
             op == log[n]
         IN  IF op.operation = "create_order"
             THEN IF \E g \in 1..Len(groups) :
                         groups[g].order_number = op.order_number
                  THEN groups
                  ELSE Append(groups, [order_number |-> op.order_number,
                                       order |-> n, operations |-> <<>>])
             ELSE IF groups # <<>>
             THEN [groups EXCEPT ![Len(groups)].operations = Append(@, n)]
             ELSE groups

\* The entries the report prints under the order number of group g: the
\* company and person operations of the group.
Listed(log, groups, g) ==
    SelectSeq(groups[g].operations,
              LAMBDA i : log[i].operation \in {"company", "person"})

\* ======================================================= the properties
Ids(rows) == {r.id : r \in rows}
Live == ~dry_run
\* run() has returned and the parser's connection is still open.
Returned == pc = "done"
\* The run in progress is a live run that directly follows a live run.
SecondLiveRun == runNo >= 2 /\ prev.ran /\ ~prev.dry_run /\ Live /\ pc # "idle"

\* C1: a live run that follows a live run over the same file adds no row to
\* orders and no row to line_items.
C1_SecondRunAddsNoOrder ==
    SecondLiveRun =>
        /\ View(World).orders = start.orders
        /\ View(World).line_items = start.line_items

\* C2: a live run that follows a live run over the same file leaves the
\* numbers of companies, people and products as the first run left them.
C2_SecondRunKeepsCounts ==
    SecondLiveRun =>
        \A t \in {"companies", "people", "products"} :
            Cardinality(View(World)[t]) = Cardinality(start[t])

\* C4: create_order in live mode, called for a record whose order number is
\* that of a stored order, does not raise, inserts no second order and
\* returns the id of the stored order.
C4_CreateOrderSkipsStoredOrder ==
    (Live /\ order_call.made /\ order_call.stored # {}) =>
        /\ order_call.raised = "none"
        /\ order_call.order_id \in order_call.stored
        /\ \A o1, o2 \in View(World).orders :
               o1.order_number = o2.order_number => o1 = o2

\* C5: in a live run, for every record, the order row and the line-item row
\* that create_order inserted for it are both held or both absent, in the
\* committed tables and in what the run's connection sees.
BothOrNeither(tables) ==
    \A i \in 1..Len(made) :
        (made[i].order \in Ids(tables.orders))
            <=> (made[i].line_item \in Ids(tables.line_items))

C5_OrderAndLineItemTogether ==
    (Live /\ pc # "idle") => BothOrNeither(store) /\ BothOrNeither(View(World))

\* The line-item insert failed after the order insert had succeeded, and run
\* has returned.
C5_Witness ==
    /\ Live /\ Returned
    /\ \E i \in 1..Len(made) : outcome[i] = "DataError" /\ made[i].order # None

\* A record that depends on nothing another record or the store holds: its
\* order number and addresses are its own and its date parses.
Independent(j) ==
    LET record == valid_records[j] IN
        /\ DateParses(record.date)
        /\ ~OrderNumberTaken(start, record.order_number)
        /\ \A a \in {StripAddr(record.email[n]) : n \in 1..Len(record.email)} :
              ~EmailTaken(start, a)
        /\ \A k \in 1..Len(valid_records) :
              k # j =>
                 /\ valid_records[k].order_number # record.order_number
                 /\ \A n \in 1..Len(record.email), m \in 1..Len(valid_records[k].email) :
                       record.email[n] # valid_records[k].email[m]

\* C6: when a record fails with a store error (the unique-key violation the
\* claim names), one error is recorded for it and every later record that
\* would succeed without it still succeeds.
C6_LaterRecordsUnaffected ==
    (Live /\ Returned) =>
        /\ Len(errors) = Cardinality({i \in 1..Len(outcome) : outcome[i] # "ok"})
        /\ \A i, j \in 1..Len(outcome) :
               (i < j /\ outcome[i] = "UniqueViolation" /\ Independent(j))
                   => outcome[j] \in {"ok", "DataError"}

\* C7: when a live run returns, the order and the line item of every record
\* that was processed successfully are committed.
C7_SuccessfulRecordsCommitted ==
    (Live /\ Returned) =>
        \A i \in 1..Len(outcome) :
            outcome[i] = "ok" =>
                /\ made[i].order \in Ids(store.orders)
                /\ made[i].line_item \in Ids(store.line_items)

\* C8: a dry run never changes the store: the committed tables stay what
\* they were when the run began and the connection writes nothing.
C8_DryRunWritesNothing ==
    dry_run => store = start /\ pending = EmptyTables

\* A dry run has processed a shipping row while the store holds no shipping
\* product.
C8_Witness ==
    /\ dry_run /\ Returned
    /\ ~SkuTaken(store, SHIPPING)
    /\ \E i \in 1..Len(outcome) :
          outcome[i] = "ok" /\ Sku(valid_records[i].item) = SHIPPING

\* C9: a live run started from the store a dry run started from takes the
\* decisions (found or create, per company, person and product) the dry run
\* logged, in the same order.
C9_DryRunPreviewsLiveRun ==
    (Live /\ Returned /\ prev.ran /\ prev.dry_run) => RunDecisions = prev.decisions

\* C10: in a live run in which the store has refused no value, of the calls
\* of find_or_create_company for a domain no stored company has, the first
\* creates the company and every later one returns its id, one company with
\* that domain existing when it returns.
C10_SecondRecordFindsCompany ==
    (Live /\ \A i \in 1..Len(outcome) : outcome[i] # "DataError") =>
        \A k, l \in 1..Len(calls) :
            (/\ k < l
             /\ calls[k].domain = calls[l].domain
             /\ ~DomainTaken(start, calls[k].domain)
             /\ \A n \in 1..(k - 1) : calls[n].domain # calls[k].domain)
            => /\ calls[k].outcome = "created"
               /\ calls[l].outcome = "found"
               /\ calls[l].id = calls[k].id
               /\ calls[l].count = 1

\* C3: when CombinedOrderImporter.process runs again over the same file, the
\* second run inserts no order and no line item: every group it has passed
\* was skipped, its batches stay empty, and the orders and line_items tables
\* are the ones the run began with.
C3_SecondRunSkipsEveryGroup ==
    s4s_run >= 2 =>
        /\ s4s_store.orders = s4s_start.orders
        /\ s4s_store.line_items = s4s_start.line_items
        /\ orders_created = 0
        /\ line_items_created = 0
        /\ order_batch = <<>>
        /\ orders_skipped = s4s_i - 1

\* A second run has finished over a file of several groups, the first run of
\* which stored several line items.
C3_Witness ==
    /\ s4s_run = 2
    /\ s4s_pc = "done"
    /\ orders_skipped >= 2
    /\ Cardinality(s4s_store.line_items) >= 3
    /\ Cardinality(s4s_store.orders) >= 2

\* The lower-cased form of the domains of the model.
LowerDomain(domain) ==
    CASE domain = "X.COM" -> "x.com"
      [] domain = "FBA-amazon.com" -> "fba-amazon.com"
      [] OTHER -> domain

\* C11: in a live run, no two companies the connection sees have domains
\* that are equal ignoring letter case: find_or_create_company resolves
\* e-mails whose domains differ only in case to one company.
C11_OneCompanyPerLowerCasedDomain ==
    Live =>
        \A c1, c2 \in View(World).companies :
            LowerDomain(c1.domain) = LowerDomain(c2.domain) => c1 = c2

\* The arguments find_person is examined with: an absent value and two
\* present ones for each of e-mail, phone and name.
LookupEmails == {NoEmail, Addr("a", "x.com"), Addr("c", "y.com")}
LookupPhones == {"", "p1", "p3"}
LookupNames == {"", "Ann", "Cy"}

Layered(r, email, phone, name) ==
    LET people == View(World).people
        byEmail == {p.id : p \in {p \in people : email # NoEmail /\ p.email = email}}
        byPhone == {p.id : p \in {p \in people : phone # "" /\ p.phone = phone}}
        byName == {p.id : p \in {p \in people : name # "" /\ p.name = name}}
        asked == {r.queries[i] : i \in 1..Len(r.queries)}
    IN  /\ r.raised = "none"
        /\ byEmail # {} =>
              r.basis = "email" /\ r.val \in byEmail /\ asked = {"email"}
        /\ (byEmail = {} /\ byPhone # {}) =>
              r.basis = "phone" /\ r.val \in byPhone /\ "name" \notin asked
        /\ (byEmail = {} /\ byPhone = {} /\ byName # {}) =>
              r.basis = "name" /\ r.val \in byName
        /\ (byEmail = {} /\ byPhone = {} /\ byName = {}) =>
              r.basis = "none" /\ r.val = None

C13_MatchedPersonIsReturned ==
    \A i \in 1..Len(person_calls) :
        person_calls[i].matched # {} =>
            /\ person_calls[i].raised = "none"
            /\ person_calls[i].val \in person_calls[i].matched
            /\ person_calls[i].unchanged

AmazonWithoutEmail(record) ==
    Channel(record.order_number) = "amazon" /\ record.email = <<>>

\* The Amazon records without e-mail among the first i records of the run.
FbaRecords(i) == {m \in 1..i : AmazonWithoutEmail(valid_records[m])}

\* C14: in a run, the k-th handled record that is on the amazon channel and
\* has no e-mail is resolved with FBA-user{k}@FBA-amazon.com, the counter
\* equals the number of such records handled so far, and no two records get
\* the same synthetic e-mail.
C14_SyntheticEmailNumbersRecords ==
    /\ fba_user_counter = Cardinality(FbaRecords(Len(chosen)))
    /\ \A i \in FbaRecords(Len(chosen)) :
          chosen[i] = << <<"FBA-user", Cardinality(FbaRecords(i))>>, "FBA-amazon.com" >>
    /\ \A i, j \in FbaRecords(Len(chosen)) : i # j => chosen[i] # chosen[j]

\* A run has handled two Amazon records without e-mail.
C14_Witness ==
    /\ pc = "done"
    /\ Cardinality(FbaRecords(Len(chosen))) >= 2
    /\ fba_user_counter >= 2

\* The e-mails the records handled so far were resolved with, and their
\* domains.
ChosenEmails == {chosen[k] : k \in 1..Len(chosen)}
ChosenDomains == {GetDomainFromEmail(e) : e \in ChosenEmails}

\* C15: a record whose email field holds several addresses is resolved with
\* the first of them, blanks removed; no lookup of a company, no row written
\* to people or companies and no entry of the operation log carries an
\* address other than the ones the records were resolved with.
C15_OnlyFirstAddressIsUsed ==
    /\ \A i \in 1..Len(chosen) :
          Len(valid_records[i].email) > 1 =>
              chosen[i] = <<valid_records[i].email[1][1], valid_records[i].email[1][2]>>
    /\ \A p \in View(World).people \ start.people : p.email \in ChosenEmails
    /\ \A c \in View(World).companies \ start.companies : c.domain \in ChosenDomains
    /\ \A k \in 1..Len(calls) : calls[k].domain \in ChosenDomains
    /\ \A k \in 1..Len(operations_log) :
          /\ operations_log[k].operation = "person" =>
                operations_log[k].email \in ChosenEmails
          /\ operations_log[k].operation = "company" =>
                operations_log[k].domain \in ChosenDomains

\* A live run has processed a record with two addresses, the first followed
\* by blanks, and a person was created for it.
C15_Witness ==
    /\ Live /\ Returned
    /\ \E i \in 1..Len(outcome) :
          /\ Len(valid_records[i].email) = 2
          /\ Len(valid_records[i].email[1]) = 3
          /\ outcome[i] = "ok"
          /\ \E p \in View(World).people \ start.people : p.email = chosen[i]

\* C16: in a live run, the rows the run has created hold at most one company
\* per domain, one person per e-mail and one product per SKU, and a record
\* resolved with the e-mail an earlier record of the run created a person for
\* does not fail on that person: it gets the person's id.
C16_CreatedOncePerKey ==
    Live =>
        /\ \A c1, c2 \in View(World).companies \ start.companies :
              c1.domain = c2.domain => c1 = c2
        /\ \A p1, p2 \in View(World).people \ start.people :
              p1.email = p2.email => p1 = p2
        /\ \A p1, p2 \in View(World).products \ start.products :
              p1.sku = p2.sku => p1 = p2
        /\ \A i, j \in 1..Len(person_calls) :
              (/\ i < j
               /\ chosen[i] = chosen[j]
               /\ person_calls[i].raised = "none"
               /\ person_calls[i].val \notin Ids(start.people))
              => /\ person_calls[j].raised # "UniqueViolation"
                 /\ person_calls[j].raised = "none" =>
                       person_calls[j].val = person_calls[i].val

\* The channel of an order number by its exact shape.
ExactChannel(s) ==
    IF Len(s) = 11 /\ s[4] = "-" /\ \A i \in (1..3) \cup (5..11) : s[i] \in Digits
    THEN "amazon"
    ELSE IF Len(s) = 7 /\ SubSeq(s, 1, 3) = <<"3", "D", "-">>
            /\ \A i \in 4..7 : s[i] \in Digits
    THEN "online_store"
    ELSE IF Len(s) = 5 /\ s[1] = "A" /\ \A i \in 2..5 : s[i] \in Digits
    THEN "invoice"
    ELSE "ValueError"

\* C17: the channel of every record parse_row returns is the one its
\* order number has by its exact shape (NNN-NNNNNNN, 3D-NNNN, ANNNN), and
\* channel fails for every other order number.
C17_ChannelByExactShape ==
    \A i \in 1..Len(parsed) :
        parsed[i].kind = "record" =>
            Channel(parsed[i].record[1].order_number)
                = ExactChannel(parsed[i].record[1].order_number)

\* The text 'shipping' in any letter case.
IsShippingText(item) ==
    /\ Len(item) = Len(SHIPPING)
    /\ \A i \in 1..Len(item) :
          \E j \in 1..26 :
              /\ LowerCase[j] = SHIPPING[i]
              /\ item[i] \in {LowerCase[j], UpperCase[j]}

\* n leading word, hyphen and dot characters, then blanks, then "(".
TokenBeforeParen(item, n) ==
    /\ \A i \in 1..n : item[i] \in Letters \cup Digits \cup {"_", "-", "."}
    /\ \E k \in (n + 1)..Len(item) :
          /\ item[k] = "("
          /\ \A i \in (n + 1)..(k - 1) : item[i] \in {" ", "\t"}

ExpectedSku(item) ==
    IF IsShippingText(item) THEN SHIPPING
    ELSE IF \E n \in 1..Len(item) : TokenBeforeParen(item, n)
    THEN SubSeq(item, 1, CHOOSE n \in 1..Len(item) : TokenBeforeParen(item, n))
    ELSE <<"ValueError">>

\* C18: the sku of every record parse_row returns is a function of its item
\* text: 'shipping' in any letter case gives the reserved SKU; otherwise the
\* leading token of word, hyphen and dot characters before an opening
\* parenthesis; otherwise extraction fails, and validate_record then records
\* the row as an error instead of collecting it.
C18_SkuOfItemText ==
    \A i \in 1..Len(parsed) :
        parsed[i].kind = "record" =>
            LET item == parsed[i].record[1].item IN
                /\ Sku(item) = ExpectedSku(item)
                /\ Sku(item) = <<"ValueError">> =>
                      \A j \in 1..Len(collected) : collected[j].item # item

C18_Witness ==
    /\ Len(parsed) = 2
    /\ parsed[1].kind = "record" /\ parsed[2].kind = "record"
    /\ parsed[1].record[1].item \notin {SHIPPING}
    /\ IsShippingText(parsed[1].record[1].item)
    /\ Sku(parsed[1].record[1].item) = SHIPPING
    /\ Sku(parsed[2].record[1].item) = <<"0", "1", "-", "6", "3", "1", "0", ".", "3", "8", "K">>
    /\ Len(collected) = 2

\* C19: parse_row never raises to its caller: every row read so far gave a
\* record or exactly one error carrying its row number and its raw data, and
\* the run goes on to the next row until the file is read.
C19_ParseRowNeverRaises ==
    /\ read_pc # "raised"
    /\ \A i \in 1..Len(parsed) :
          /\ parsed[i].kind \in {"record", "error"}
          /\ parsed[i].kind = "error" =>
                Cardinality({j \in 1..Len(read_errors) :
                                /\ read_errors[j].row = i
                                /\ read_errors[j].data = csv_rows[i]}) = 1
    /\ read_pc = "read" => Len(parsed) = Len(csv_rows)

\* C20: every record parse_row returns has a quantity that is not negative.
C20_QuantityIsNotNegative ==
    \A i \in 1..Len(parsed) :
        parsed[i].kind = "record" => parsed[i].record[1].quantity >= 0

\* The rule of validate_record a record fails first, the rules taken in the
\* order: e-mail present unless the channel is amazon, channel derivable,
\* SKU derivable, address parseable.
FirstFailingRule(record) ==
    IF record.email = <<>> /\ Channel(record.order_number) # "amazon" THEN "email"
    ELSE IF Channel(record.order_number) = "ValueError" THEN "channel"
    ELSE IF Sku(record.item) = <<"ValueError">> THEN "sku"
    ELSE IF ~(/\ record.address_raw.zip
              /\ record.address_raw.parts >= 2
              /\ record.address_raw.words >= 2) THEN "address"
    ELSE "none"

\* The error entries of row i.
ErrorsOfRow(i) == {j \in 1..Len(read_errors) : read_errors[j].row = i}

\* C21: validate_record accepts a record iff the four rules hold, and for a
\* rejected record appends exactly one error, whose reason is that of the
\* first rule the record fails in the order e-mail, channel, SKU, address;
\* it never raises.
C21_FirstFailingRuleIsReported ==
    \A i \in 1..Len(parsed) :
        parsed[i].kind = "record" =>
            LET rule == FirstFailingRule(parsed[i].record[1]) IN
                IF rule = "none" THEN ErrorsOfRow(i) = {}
                ELSE /\ Cardinality(ErrorsOfRow(i)) = 1
                     /\ \A j \in ErrorsOfRow(i) :
                           /\ read_errors[j].by = "validate_record"
                           /\ read_errors[j].error = rule

\* Row i is accepted by parse_row and by validate_record.
Accepted(i) ==
    /\ ParseRow(csv_rows[i]).kind = "record"
    /\ ValidationFailure(ParseRow(csv_rows[i]).record[1]) = "none"

\* The records of the accepted rows among the first n, in file order.
RECURSIVE AcceptedRecords(_)
AcceptedRecords(n) ==
    IF n = 0 THEN <<>>
    ELSE IF Accepted(n)
    THEN Append(AcceptedRecords(n - 1), ParseRow(csv_rows[n]).record[1])
    ELSE AcceptedRecords(n - 1)

\* C22: the records run collects are exactly those of the rows parse_row and
\* validate_record both accept, in file order and one per row, and every
\* other row that was read has exactly one entry in the error list.
C22_RunReturnsTheAcceptedRows ==
    /\ collected = AcceptedRecords(row_num)
    /\ \A i \in 1..row_num :
          Cardinality(ErrorsOfRow(i)) = IF Accepted(i) THEN 0 ELSE 1

\* The number of accepted rows among the first n.
AcceptedCount(n) == Len(AcceptedRecords(n))

\* C23: with a line limit N >= 0 run collects and processes at most N valid
\* records, the first N valid rows in file order, and reads no row after
\* the N-th valid one.
C23_AtMostLimitRecords ==
    line_limit # <<>> =>
        /\ Len(collected) <= line_limit[1]
        /\ Len(valid_records) <= line_limit[1]
        /\ Len(outcome) <= line_limit[1]
        /\ collected = AcceptedRecords(row_num)
        /\ pc # "idle" => valid_records = collected
        /\ line_limit[1] >= 1 =>
              \A n \in 1..row_num : AcceptedCount(n - 1) < line_limit[1]

\* C24: rows are handled one at a time end to end: when a row has been
\* parsed, every accepted row before it has been processed to its end.
C24_RowsAreHandledOneAtATime ==
    \A j \in 1..row_num : Len(outcome) >= AcceptedCount(j - 1)

Kinds == {"company", "person", "product", "order", "line_item"}

\* Entry i of the operation log is a simulated creation of the kind.
IsCreation(i, kind) ==
    IF kind \in {"order", "line_item"}
    THEN operations_log[i].operation = "create_order"
    ELSE /\ operations_log[i].operation = kind
         /\ operations_log[i].status = "would_create"

Creations(kind, n) == Cardinality({i \in 1..n : IsCreation(i, kind)})

\* The id entry i of the operation log gives to the kind it creates.
SimulatedId(i, kind) ==
    IF kind = "order" THEN operations_log[i].simulated_order_id
    ELSE IF kind = "line_item" THEN operations_log[i].simulated_line_item_id
    ELSE operations_log[i].simulated_id

\* C25: in a dry run every kind has its own counter, which is 1 plus the
\* number of simulated creations of the kind logged so far; the k-th
\* simulated creation of a kind gets the id k, and a found decision gets no
\* simulated id and moves no counter.
C25_CountersCountCreations ==
    dry_run =>
        \A kind \in Kinds :
            /\ simulated_ids[kind] = 1 + Creations(kind, Len(operations_log))
            /\ \A i \in 1..Len(operations_log) :
                  /\ IsCreation(i, kind) =>
                        SimulatedId(i, kind) = 1 + Creations(kind, i - 1)
                  /\ (/\ operations_log[i].operation = kind
                      /\ ~IsCreation(i, kind)) =>
                        /\ operations_log[i].simulated_id = None
                        /\ operations_log[i].existing_id # None

C25_Witness ==
    /\ dry_run
    /\ simulated_ids.company = 3
    /\ simulated_ids.order = 3
    /\ \E i \in 1..Len(operations_log) :
          /\ operations_log[i].operation = "product"
          /\ operations_log[i].status = "found"

\* The index in the operation log of the k-th create_order entry, 0 for k = 0.
OrderEntry(k) ==
    IF k = 0 THEN 0
    ELSE CHOOSE i \in 1..Len(operations_log) :
             /\ operations_log[i].operation = "create_order"
             /\ Creations("order", i) = k

\* The operations logged for the k-th record, in log order.
OperationsOf(k) ==
    [i \in 1..(OrderEntry(k) - OrderEntry(k - 1)) |->
        operations_log[OrderEntry(k - 1) + i].operation]

HasDomain(email) ==
    email # NoEmail /\ GetDomainFromEmail(email) # NoDomain

\* C26: in a dry run the operation log holds, for each processed record and
\* in this order, the company decision (when the chosen e-mail has a
\* domain), one person decision, one product decision and the create_order
\* entry.
C26_LogHoldsEveryDecisionInOrder ==
    dry_run =>
        /\ Creations("order", Len(operations_log)) = Len(outcome)
        /\ \A k \in 1..Len(outcome) :
              OperationsOf(k) =
                  (IF HasDomain(chosen[k]) THEN <<"company">> ELSE <<>>)
                  \o <<"person", "product", "create_order">>

\* The record that produced entry i of the operation log of a dry run.
ProducedBy(i) ==
    CHOOSE k \in 1..Len(outcome) : OrderEntry(k - 1) < i /\ i <= OrderEntry(k)

\* The number of times entry i is listed under group g.
TimesListed(groups, g, i) ==
    LET listed == Listed(operations_log, groups, g)
    IN  Cardinality({j \in 1..Len(listed) : listed[j] = i})

\* C27: in the summary of a dry run every logged company and person
\* decision is listed exactly once, under the order number of the record
\* that produced it.
C27_DecisionsListedUnderTheirOrder ==
    (dry_run /\ pc = "done") =>
        LET groups == OrderGroups(operations_log, Len(operations_log)) IN
            \A i \in 1..Len(operations_log) :
                operations_log[i].operation \in {"company", "person"} =>
                    \A g \in 1..Len(groups) :
                        TimesListed(groups, g, i) =
                            IF groups[g].order_number
                                   = valid_records[ProducedBy(i)].order_number
                            THEN 1 ELSE 0

ShippingProducts == {r \in race_store.products : r.sku = SHIPPING}

\* The calls run p has made of the operation.
CallsOf(p, op) ==
    {i \in 1..Len(race[p].calls) : race[p].calls[i].op = op}

\* C28: when live runs call ensure_shipping_product concurrently, no call
\* raises, every call returns the id of the shipping product, and there is
\* never more than one such product.
C28_ShippingRaceConverges ==
    /\ Cardinality(ShippingProducts) <= 1
    /\ \A p \in DOMAIN race :
          \A i \in CallsOf(p, "shipping") :
              /\ race[p].calls[i].raised = "none"
              /\ \E r \in ShippingProducts : r.id = race[p].calls[i].val

\* Every run has ended after a call of find_or_create_company for the
\* domain, which no company of the store had when the runs began.
AllResolved(domain) ==
    /\ race # <<>>
    /\ \A p \in DOMAIN race :
          /\ race[p].pc = "ended"
          /\ \E i \in CallsOf(p, "company") :
                /\ race[p].calls[i].arg = domain
                /\ race[p].calls[i].val \geq 2

\* C29: when the runs have each resolved the same never-seen domain and
\* have ended, the store holds exactly one company of the domain and no
\* call of theirs has raised.
C29_CompanyRaceConverges ==
    \A domain \in RaceDomains :
        AllResolved(domain) =>
            /\ Cardinality({c \in race_store.companies : c.domain = domain}) = 1
            /\ \A p \in DOMAIN race :
                  \A i \in 1..Len(race[p].calls) : race[p].calls[i].raised = "none"

\* C30: after a call of ensure_companies the mapping returned has exactly
\* the non-null domains of company_data as keys, each mapped to the id of
\* the one companies row of the domain; a row was inserted only for a domain
\* that had none, at most one per domain, and the rows that existed are
\* unchanged.
C30_EnsureCompaniesMapping ==
    imp_call.made =>
        LET domains == {imp_call.data[i][2] : i \in 1..Len(imp_call.data)}
                           \ {"NaN"}
        IN  /\ {k[1] : k \in imp_call.mapping} = domains
            /\ Cardinality(imp_call.mapping) = Cardinality(domains)
            /\ \A k \in imp_call.mapping :
                  {c.id : c \in {c \in imp_companies : c.domain = k[1]}} = {k[2]}
            /\ imp_call.before \subseteq imp_companies
            /\ \A c \in imp_companies \ imp_call.before :
                  /\ c.domain \in domains
                  /\ \A b \in imp_call.before : b.domain # c.domain /\ b.id # c.id
                  /\ \A d \in imp_companies \ imp_call.before :
                        d.domain = c.domain => d = c

C30_Witness ==
    /\ imp_call.made
    /\ Len(imp_call.data) = 2
    /\ imp_call.data[1][2] = "y.com"
    /\ imp_call.data[2][2] = "y.com"
    /\ imp_call.data[1][1] # imp_call.data[2][1]
    /\ imp_call.before = {[id |-> 1, name |-> "X", domain |-> "x.com"]}
    /\ Cardinality(imp_companies) = 2
    /\ imp_call.mapping = {<<"y.com", 2>>}

\* The rows of the file in the (date, email, amount, invoice number) group
\* an order was created from.
RowsOfOrder(o) ==
    OrderItems(Preprocess(s4s_file),
               <<o.date, o.person_id, o.amount, o.invoice_number>>)

\* C31: every line item process inserts references the order created from
\* its own group: an order created in the run never has more line items
\* than its group has rows, those of another group being attached to it.
C31_LineItemsStayWithTheirOrder ==
    \A o \in s4s_store.orders \ s4s_start.orders :
        Cardinality({li \in s4s_store.line_items : li.order_id = o.id})
            <= Len(RowsOfOrder(o))

\* C32: when run returns, the statistics count the rows read, the records
\* returned and the entries of the error list, and every entry of the error
\* list carries a row number and a reason.
C32_StatisticsMatchTheRun ==
    (read_pc = "read" /\ pc = "done") =>
        /\ Stats.total_rows = row_num
        /\ Stats.valid_records = Len(valid_records)
        /\ Stats.errors = Len(ErrorList)
        /\ \A i \in 1..Len(ErrorList) : {"row", "error"} \subseteq DOMAIN ErrorList[i]

\* A word that is a ZIP code: five digits, or five digits, a dash and four.
IsZip(t) ==
    \/ Len(t) = 5 /\ AllDigits(t, 1, 5)
    \/ Len(t) = 10 /\ AllDigits(t, 1, 5) /\ t[6] = "-" /\ AllDigits(t, 7, 10)

ZipWords(a) == {i \in 1..Len(a.last) : IsZip(a.last[i])}

\* The address has no ZIP, fewer than two pieces, or a last piece without
\* a state before its ZIP.
Unparseable(a) ==
    \/ ZipWords(a) = {}
    \/ a.last = <<>>
    \/ Len(a.last) < 2

\* C33: AddressParser.parse returns the first piece as the street, the second
\* piece as the city when there are more than two pieces and the empty text
\* otherwise, the first word of the last piece as the state, the first five
\* digits of the ZIP as zip_code and "US" as the country; it fails exactly
\* when there is no ZIP, there are fewer than two pieces, or the last piece
\* lacks a state.
C33_AddressParsedIntoItsParts ==
    addr_out # <<>> =>
        LET a == addr_in[1]
            r == addr_out[1]
        IN  IF r.raised THEN Unparseable(a)
            ELSE /\ ~Unparseable(a)
                 /\ r.street = a.street
                 /\ r.city = (IF Len(a.middle) >= 1 THEN a.middle[1] ELSE <<>>)
                 /\ r.state = a.last[1]
                 /\ \E i \in ZipWords(a) : r.zip_code = SubSeq(a.last[i], 1, 5)
                 /\ r.country = <<"U", "S">>

\* One step of process_record on the record at idx.
ProcessRecordStep ==
    /\ (pc' = "product" /\ pc # "product") =>
           pc = "person" /\ idx' = idx /\ errors' = errors
    /\ (pc' = "order" /\ pc # "order") =>
           pc = "product" /\ idx' = idx /\ errors' = errors
    /\ pc = "order" => person_id # None /\ product_id # None
    /\ ~(View(World').orders \subseteq View(World).orders) => pc = "order"
    /\ (pc \in {"person", "product", "order"} /\ idx' # idx) =>
           /\ idx' = idx + 1
           /\ pc' \in {"person", "done"}
           /\ Len(outcome') = Len(outcome) + 1
           /\ IF outcome'[Len(outcome')] = "ok"
              THEN pc = "order" /\ errors' = errors
              ELSE errors' = Append(errors, [error |-> outcome'[Len(outcome')],
                                             record |-> valid_records[idx]])

\* C34: for each record process_record runs handle_person, then
\* find_or_create_product, then create_order; when a step raises, no later
\* step runs for the record, exactly one error with the record is appended
\* and process_record returns False, the loop going on with the next record.
C34_StepsInOrderFailureRecordedOnce == [][ProcessRecordStep]_vars

\* A run in which one record was processed to the end and another failed.
C34_Witness ==
    /\ errors # <<>>
    /\ \E i \in 1..Len(outcome) : outcome[i] = "ok"
    /\ \E i \in 1..Len(outcome) : outcome[i] # "ok"

\* The rows of orders that the call added for the order o of its batch.
StoredFor(call, o) ==
    {r \in call.after.orders \ call.before.orders :
        /\ r.person_id = o.person_id
        /\ r.date = o.date
        /\ r.amount = o.amount
        /\ r.invoice_number = o.invoice_number}

\* C35: _process_batch is all-or-nothing: it commits every order of the batch
\* with all line items of that order, or, when a statement or the commit
\* fails, leaves no order and no line item of the batch behind and raises;
\* what was committed before stays stored, and no line item is stored
\* without its order.
C35_BatchAllOrNothing ==
    /\ batch_call.made =>
          /\ batch_call.before.orders \subseteq batch_call.after.orders
          /\ batch_call.before.line_items \subseteq batch_call.after.line_items
          /\ batch_call.after.orders \subseteq s4s_store.orders
          /\ batch_call.after.line_items \subseteq s4s_store.line_items
          /\ IF batch_call.raised
             THEN /\ batch_call.after.orders = batch_call.before.orders
                  /\ batch_call.after.line_items = batch_call.before.line_items
                  /\ s4s_pc = "raised"
             ELSE \A k \in 1..Len(batch_call.batch) :
                     \E r \in StoredFor(batch_call, batch_call.batch[k]) :
                        Cardinality({li \in batch_call.after.line_items :
                                        li.order_id = r.id})
                          = Cardinality({j \in 1..Len(batch_call.items) :
                                        batch_call.items[j].order_index = k - 1})
    /\ \A li \in s4s_store.line_items :
          \E o \in s4s_store.orders : o.id = li.order_id

\* The first row of the file with the e-mail.
FirstRowOf(file, email) ==
    file[CHOOSE i \in 1..Len(file) :
            /\ file[i].email = email
            /\ \A j \in 1..(i - 1) : file[j].email # email]

\* C36: PeopleImporter.run gives every person it imports the company of the
\* person's domain when the row has a domain and the company of the domain
\* 'unknown' otherwise, and after any number of runs one after the other
\* exactly one company has the domain 'unknown'.
C36_EveryPersonHasACompanyOneUnknown ==
    ppl_run.made =>
        /\ Cardinality({c \in ppl_companies : c.domain = "unknown"}) = 1
        /\ \A p \in ppl_people \ ppl_run.before :
              LET row == FirstRowOf(ppl_run.file, p.email)
                  domain == IF row.domain = NullDomain THEN "unknown" ELSE row.domain
              IN  \E c \in ppl_companies : c.id = p.company_id /\ c.domain = domain

\* A second run has imported a person without a domain after a first run
\* that imported one with a domain.
C36_Witness ==
    /\ ppl_runs = 2
    /\ \E p \in ppl_people \ ppl_run.before :
          FirstRowOf(ppl_run.file, p.email).domain = NullDomain
    /\ \E p \in ppl_run.before, c \in ppl_companies :
          c.id = p.company_id /\ c.domain = "x.com"

\* The id a resolver returned with an entry of the operation log.
ReturnedWith(e) == IF e.status = "would_create" THEN e.simulated_id ELSE e.existing_id

\* What an entry of the operation log is about: the domain of a company, the
\* e-mail of a person, the SKU of a product.
SubjectOf(e) ==
    CASE e.operation = "company" -> e.domain
      [] e.operation = "person" -> e.email
      [] e.operation = "product" -> e.sku

\* C37: in a dry run the ids find_or_create_company returns for two
\* different domains differ: a placeholder id never equals the id of a
\* company found in the store nor another placeholder id; likewise for the
\* persons of two e-mails and the products of two SKUs.
C37_DryRunIdsTellSubjectsApart ==
    dry_run =>
        \A i, j \in 1..Len(operations_log) :
            LET e == operations_log[i]
                f == operations_log[j]
            IN  (/\ e.operation \in {"company", "person", "product"}
                 /\ f.operation = e.operation
                 /\ SubjectOf(e) # SubjectOf(f))
                    => ReturnedWith(e) # ReturnedWith(f)

\* C38: the counts process reports are exact: orders_created is the number of
\* order rows inserted during the run, line_items_created the number of
\* line-item rows inserted, and orders_created + orders_skipped the number
\* of (date, email, amount, invoice number) groups.
C38_ReportedCountsAreExact ==
    s4s_pc = "done" =>
        /\ orders_created = Cardinality(s4s_store.orders \ s4s_start.orders)
        /\ line_items_created
               = Cardinality(s4s_store.line_items \ s4s_start.line_items)
        /\ orders_created + orders_skipped = Len(s4s_groups)

\* C39: every iteration of CompanyEnricher.run takes the selected company out
\* of the companies get_next_company selects from, whether the request
\* succeeds, returns 404 or fails: no company is selected twice in a run,
\* and the company just processed is not eligible any more.
C39_EachIterationRemovesTheCompany ==
    /\ \A i, j \in 1..Len(enr_selected) : i # j => enr_selected[i] # enr_selected[j]
    /\ (enr_pc = "select" /\ enr_selected # <<>>) =>
           ~Eligible(enr_companies[enr_company])

\* C40: for each of the five model choices main constructs the selected
\* importer and runs its import routine over the given CSV file: with the
\* database up and the file in place, main gets to read the file, whatever
\* the choice.
C40_EveryChoiceRunsItsImporter ==
    (/\ main_pc = "exited"
     /\ main_argv[1].model \in {"people", "orders", "products", "line-items",
                                "combined-order"}
     /\ main_argv[1].csv_file \in {"people.csv", "orders.csv"}
     /\ main_db)
        => main_outcome = "read"

================================================================
